---------------------------- MODULE Spec2Model ----------------------------
(***************************************************************************)
(* Session controller of the parking-fee optimisation front end            *)
(* (frontend/src/components/App/App.js).                                   *)
(*                                                                         *)
(* The controller is a React function component.  Its state is the set of  *)
(* useState cells; every handler is an async function that runs            *)
(* synchronously up to its next `await`, so one action of the model is one *)
(* such segment: the start of a handler up to the request it sends, or the *)
(* continuation that runs when the reply (or the failure) arrives.         *)
(* A handler reads the cells through the closure of the render in which it *)
(* was invoked, so a pending request carries the values it captured.       *)
(*                                                                         *)
(* Numbers are scaled to integers: fees and shares in tenths, occupancies  *)
(* in percent, elasticities in tenths.                                     *)
(*                                                                         *)
(* Not modelled: menuOpen, modalMessage and isPickingLocation.  They are   *)
(* written but never read by the handlers below; leaving them out is a     *)
(* projection of the state, it removes no behaviour of the other cells.    *)
(***************************************************************************)
EXTENDS Integers, Sequences, FiniteSets

\* ---------------------------------------------------------------- bounds
\* Largest number of requests in flight at once that the model explores.
MaxInFlight == 2

\* The changes of settings that the operator makes in the explored sessions.
MaxSettingsChanges == 2

\* The largest current_capacity of the zones shown in the info panel.
MaxCurrentCapacity == 150

\* ------------------------------------------------------ JavaScript values
\* `undefined`: the value of a property that an object does not carry.
Undefined == 0 - 999

\* `null` in a cell that otherwise holds an object.
Null == [isNull |-> TRUE]

\* a || b
OrElse(a, b) == IF a = Undefined \/ a = 0 THEN b ELSE a

\* a ?? b
Coalesce(a, b) == IF a = Undefined THEN b ELSE a

\* The ids of an array of objects that carry an id.
IdsOf(s) == {s[i].id : i \in 1..Len(s)}

\* array.find(z => z.id === id): the first match, or Undefined.
FindById(s, id) ==
    IF \E i \in 1..Len(s) : s[i].id = id
    THEN s[CHOOSE i \in 1..Len(s) :
              s[i].id = id /\ \A j \in 1..(i-1) : s[j].id # id]
    ELSE Null

\* { ...prev, ...over }
Overlay(prev, over) ==
    [k \in (DOMAIN prev) \cup (DOMAIN over) |->
        IF k \in DOMAIN over THEN over[k] ELSE prev[k]]

\* ------------------------------------------------------------- the zones
\* A name that is undefined or empty (both are falsy).
NoName == ""

\* The names the backend gives its zones.
BackendName(id) == <<"P1", "P2">>[id]

\* `Zone ${id}`
DefaultName(id) == <<"Zone 1", "Zone 2">>[id]

\* A parking zone as the backend's /load_city returns it.
Zone(id, fee, maxCap, curCap) ==
    [id |-> id, name |-> BackendName(id), position |-> 10 * id,
     current_fee |-> fee, maximum_capacity |-> maxCap,
     current_capacity |-> curCap,
     elasticity |-> 0 - 3, short_term_share |-> 4,
     min_fee |-> 10, max_fee |-> 40]

\* The cities the backend can answer /load_city with.
CityA ==
    [name |-> "A", point_of_interests |-> <<>>,
     parking_zones |-> <<Zone(1, 20, 100, 50), Zone(2, 15, 50, 10)>>]
CityEmpty ==
    [name |-> "E", point_of_interests |-> <<>>, parking_zones |-> <<>>]
FetchableCities == {CityA, CityEmpty}


\* obj.field, Undefined when the object does not carry the field.
Get(obj, f) == IF f \in DOMAIN obj THEN obj[f] ELSE Undefined

\* A value that a JavaScript condition takes as true (for object cells).
Truthy(obj) == obj # Null

\* obj?.field for a field that holds an object: Null when it is missing.
GetObj(obj, f) == IF f \in DOMAIN obj THEN obj[f] ELSE Null

\* obj?.field for a field that holds a string: empty when it is missing.
GetStr(obj, f) == IF f \in DOMAIN obj THEN obj[f] ELSE ""

\* obj?.field for a field that holds an array: empty when it is missing.
GetSeq(obj, f) == IF f \in DOMAIN obj THEN obj[f] ELSE <<>>

\* --------------------------------------------------------- the optimizer
\* One per-zone result of a scenario.
ZoneResult(z, raise, occ) ==
    [id |-> z.id, new_fee |-> z.current_fee + raise,
     predicted_occupancy |-> occ,
     predicted_revenue |-> (z.current_fee + raise) * occ]

\* A scenario that lists only the last zone of the city it was computed for.
PartialScenario(zones) ==
    [scenario_id |-> 1,
     zones |-> IF zones = <<>> THEN <<>> ELSE <<ZoneResult(zones[Len(zones)], 10, 60)>>,
     score_revenue |-> 10, score_occupancy_gap |-> 1,
     score_demand_drop |-> 1, score_user_balance |-> 1]

\* A scenario that lists every zone.
FullScenario(zones) ==
    [scenario_id |-> 2,
     zones |-> [k \in 1..Len(zones) |-> ZoneResult(zones[k], 5, 70)],
     score_revenue |-> 2, score_occupancy_gap |-> 5,
     score_demand_drop |-> 1, score_user_balance |-> 1]

\* POST /optimize: the Pareto front for the submitted city.
Optimizer(c) ==
    [scenarios |-> <<PartialScenario(c.parking_zones), FullScenario(c.parking_zones)>>]

\* POST /select_best_solution_by_weight answers with one of the scenarios
\* it was sent; which one is the backend's choice.
SelectReplies(request) ==
    {[scenario |-> request.scenarios[k]] : k \in 1..Len(request.scenarios)}

\* ------------------------------------------------------ controller cells
\* useState({revenue: 50, occupancy: 30, drop: 10, fairness: 10})
InitialWeights == [revenue |-> 50, occupancy |-> 30, drop |-> 10, fairness |-> 10]

\* INITIAL_SETTINGS, reduced to the keys the controller overlays.
InitialSettings == [common |-> [cityName |-> "Karlsruhe, Germany"], optimizer |-> "initial", agent |-> "initial"]

\* The keys and positions of the weight sliders that the model moves.
SliderKeys == {"revenue"}
SliderValues == {0, 50}

OptimizerTypes == {"elasticity", "agent"}
DataSources == {"osmnx", "mobidata"}

\* The values of the error cell.
NoError == "null"
ErrConnect == "Unable to connect to backend"
ErrNoZones == "No zones loaded"
ErrOptimize == "Optimization failed"
ErrNoResults == "No optimization results available"
ErrApply == "Failed to apply optimization weights"
ErrNoDownload == "No optimization results to download"
ErrNoSnapshot == "No map snapshot found"
ErrLoadDb == "Failed to load result from database"

VARIABLES
    mounted,              \* the effect of the first render has run
    city,                 \* useState(null)
    loading,              \* useState(true)
    error,                \* useState(null)
    weights,
    selectedZoneId,       \* useState(null)
    optimizationResponse, \* useState(null)
    optimizerType,        \* useState('elasticity')
    dataSource,           \* useState('osmnx')
    optimizing,           \* useState(false)
    applyingWeights,      \* useState(false)
    settings,
    dbResults,            \* useState([])
    selectedDbResultId,   \* useState('')
    loadingDbResults,     \* useState(false)
    inflight,             \* the pending requests, in the order they were sent
    panel,                \* OptimizationSettings: its settings cell and the
                          \* dependencies its two effects saw at the last render
    settingsChanges,      \* the changes of settings the operator has made
    infoPanel             \* what InfoPanel rendered last: its zone and the
                          \* occupancy display, or null

\* The cells of the settings panel and the rendered info panel.
panelVars == <<panel, settingsChanges, infoPanel>>

vars == <<mounted, city, loading, error, weights, selectedZoneId,
          optimizationResponse, optimizerType, dataSource, optimizing,
          applyingWeights, settings, dbResults, selectedDbResultId,
          loadingDbResults, inflight, panel, settingsChanges, infoPanel>>

\* selectedZoneId === null
NoZone == 0

Init ==
    /\ mounted = FALSE
    /\ city = Null
    /\ loading = TRUE
    /\ error = NoError
    /\ weights = InitialWeights
    /\ selectedZoneId = NoZone
    /\ optimizationResponse = Null
    /\ optimizerType = "elasticity"
    /\ dataSource = "osmnx"
    /\ optimizing = FALSE
    /\ applyingWeights = FALSE
    /\ settings = InitialSettings
    /\ dbResults = <<>>
    /\ selectedDbResultId = ""
    /\ loadingDbResults = FALSE
    /\ inflight = <<>>
    /\ panel = [settings |-> InitialSettings,
                externalSettings |-> InitialSettings,
                renderedSettings |-> InitialSettings]
    /\ settingsChanges = 0
    /\ infoPanel = Null

\* The pending requests of one kind.
Pending(kind) == {i \in 1..Len(inflight) : inflight[i].kind = kind}

\* The sequence without its i-th element.
Remove(s, i) == [j \in 1..(Len(s) - 1) |-> IF j < i THEN s[j] ELSE s[j + 1]]

\* Room for n more requests within the explored bound.
Room(n) == Len(inflight) + n <= MaxInFlight

\* ------------------------------------------------- the rendered controls
\* OptimizerControls: the reload button is disabled while loading.
LoadControlDisabled == loading

\* Mutant: the run button looks at the optimizing prop only.
RunControlDisabledOptimizingOnly == optimizing

\* OptimizerControls: the run button is disabled while optimizing or loading.
RunControlDisabled == optimizing \/ loading

\* Mutant: the Apply Weights button also disabled while weights are applied.
ApplyControlDisabledWhileApplying == ~Truthy(optimizationResponse) \/ applyingWeights

\* MenuPanel: disabled={!hasOptimizationResults}
ApplyControlDisabled == ~Truthy(optimizationResponse)

\* ResultsActions: the Download button, disabled={!optimizationResponse}
DownloadControlDisabled == ~Truthy(optimizationResponse)

\* ResultsActions: the Load DB button.
LoadDbControlDisabled == selectedDbResultId = "" \/ loadingDbResults

\* ResultsActions: the Refresh DB button.
RefreshControlDisabled == loadingDbResults

\* ------------------------------------------------------------- fetchCity
\* fetchCity up to its await: the flags it sets and the request it sends.
FetchCityRequest == [kind |-> "load_city", data_source |-> dataSource']

\* The request fetchDbResults sends.
ListRequest == [kind |-> "list"]

\* Mutant: fetchCity without setError(null).
FetchCityStartKeepsError(reqs) ==
    /\ loading' = TRUE
    /\ error' = error
    /\ inflight' = reqs

\* fetchCity up to its await, the requests in flight becoming reqs.
FetchCityStart(reqs) ==
    /\ loading' = TRUE
    /\ error' = NoError
    /\ inflight' = reqs

\* fetchDbResults up to its await, the requests in flight becoming reqs.
FetchDbResultsStart(reqs) ==
    /\ loadingDbResults' = TRUE
    /\ inflight' = reqs

\* The effect of [dataSource]: fetchCity(); fetchDbResults();
DataSourceEffect ==
    /\ Room(2)
    /\ FetchCityStart(inflight \o <<FetchCityRequest, ListRequest>>)
    /\ loadingDbResults' = TRUE

\* The same effect run while a LoadCity is still pending: its two requests
\* join the pending ones, taking one place more than the explored bound.
DataSourceEffectDuringLoad ==
    /\ Room(1)
    /\ Pending("load_city") # {}
    /\ FetchCityStart(inflight \o <<FetchCityRequest, ListRequest>>)
    /\ loadingDbResults' = TRUE

\* useEffect(() => { fetchCity(); fetchDbResults(); }, [dataSource]) on mount.
Mount ==
    /\ ~mounted
    /\ mounted' = TRUE
    /\ dataSource' = dataSource
    /\ DataSourceEffect
    /\ UNCHANGED <<panelVars, city, weights, selectedZoneId, optimizationResponse,
                   optimizerType, optimizing, applyingWeights, settings,
                   dbResults, selectedDbResultId>>

\* The data-source select: setDataSource, then the effect runs again.
ChangeDataSource(ds) ==
    /\ mounted
    /\ ds # dataSource
    /\ dataSource' = ds
    /\ DataSourceEffect
    /\ UNCHANGED <<panelVars, mounted, city, weights, selectedZoneId, optimizationResponse,
                   optimizerType, optimizing, applyingWeights, settings,
                   dbResults, selectedDbResultId>>

\* The data-source select moved before the pending LoadCity is answered.
ChangeDataSourceDuringLoad(ds) ==
    /\ mounted
    /\ ds # dataSource
    /\ dataSource' = ds
    /\ DataSourceEffectDuringLoad
    /\ UNCHANGED <<panelVars, mounted, city, weights, selectedZoneId, optimizationResponse,
                   optimizerType, optimizing, applyingWeights, settings,
                   dbResults, selectedDbResultId>>

\* The reload button: loadCity={fetchCity}.
ClickReload ==
    /\ mounted
    /\ ~LoadControlDisabled
    /\ Room(1)
    /\ dataSource' = dataSource
    /\ FetchCityStart(Append(inflight, FetchCityRequest))
    /\ UNCHANGED <<panelVars, mounted, city, weights, selectedZoneId, optimizationResponse,
                   optimizerType, optimizing, applyingWeights, settings,
                   dbResults, selectedDbResultId, loadingDbResults>>

\* fetchCity after its await, the request answered with cityData.
LoadCityOk(i, cityData) ==
    /\ i \in Pending("load_city")
    /\ city' = cityData
    /\ loading' = FALSE
    /\ inflight' = Remove(inflight, i)
    /\ UNCHANGED <<panelVars, mounted, error, weights, selectedZoneId, optimizationResponse,
                   optimizerType, dataSource, optimizing, applyingWeights,
                   settings, dbResults, selectedDbResultId, loadingDbResults>>

\* Mutant: the catch branch also drops the city.
LoadCityFailDropsCity(i) ==
    /\ i \in Pending("load_city")
    /\ city' = Null
    /\ error' = ErrConnect
    /\ loading' = FALSE
    /\ inflight' = Remove(inflight, i)
    /\ UNCHANGED <<panelVars, mounted, weights, selectedZoneId, optimizationResponse,
                   optimizerType, dataSource, optimizing, applyingWeights,
                   settings, dbResults, selectedDbResultId, loadingDbResults>>

\* fetchCity after its await, the request failed.
LoadCityFail(i) ==
    /\ i \in Pending("load_city")
    /\ error' = ErrConnect
    /\ loading' = FALSE
    /\ inflight' = Remove(inflight, i)
    /\ UNCHANGED <<panelVars, mounted, city, weights, selectedZoneId, optimizationResponse,
                   optimizerType, dataSource, optimizing, applyingWeights,
                   settings, dbResults, selectedDbResultId, loadingDbResults>>

\* -------------------------------------------------------- fetchDbResults
\* The saved results that GET /results lists.
StoredListing == <<"1">>

\* The ids the saved-result select can take from the listing.
StoredIds == {"1"}

\* The Refresh DB button: refreshDbResults={fetchDbResults}.
ClickRefresh ==
    /\ mounted
    /\ ~RefreshControlDisabled
    /\ Room(1)
    /\ FetchDbResultsStart(Append(inflight, ListRequest))
    /\ UNCHANGED <<panelVars, mounted, city, loading, error, weights, selectedZoneId,
                   optimizationResponse, optimizerType, dataSource, optimizing,
                   applyingWeights, settings, dbResults, selectedDbResultId>>

\* fetchDbResults after its await, answered.
ListOk(i) ==
    /\ i \in Pending("list")
    /\ dbResults' = StoredListing
    /\ loadingDbResults' = FALSE
    /\ inflight' = Remove(inflight, i)
    /\ UNCHANGED <<panelVars, mounted, city, loading, error, weights, selectedZoneId,
                   optimizationResponse, optimizerType, dataSource, optimizing,
                   applyingWeights, settings, selectedDbResultId>>

\* fetchDbResults after its await, failed: logged only.
ListFail(i) ==
    /\ i \in Pending("list")
    /\ loadingDbResults' = FALSE
    /\ inflight' = Remove(inflight, i)
    /\ UNCHANGED <<panelVars, mounted, city, loading, error, weights, selectedZoneId,
                   optimizationResponse, optimizerType, dataSource, optimizing,
                   applyingWeights, settings, dbResults, selectedDbResultId>>

\* ------------------------------------------------------- runOptimization
\* Mutant: the guard without the test of the length.
NoZonesLoadedLengthUnchecked(c) ==
    \/ ~Truthy(c)
    \/ "parking_zones" \notin DOMAIN c

\* !city || !city.parking_zones || city.parking_zones.length === 0
NoZonesLoaded(c) ==
    \/ ~Truthy(c)
    \/ "parking_zones" \notin DOMAIN c
    \/ Len(c.parking_zones) = 0

\* The request runOptimization sends.
OptimizeRequest == [kind |-> "optimize", city |-> city, optimizer_type |-> optimizerType]

\* Mutant: the handler without setOptimizing(true).
runOptimizationFlagNotSet ==
    IF NoZonesLoaded(city)
    THEN /\ error' = ErrNoZones
         /\ UNCHANGED <<optimizing, inflight>>
    ELSE /\ Room(1)
         /\ optimizing' = optimizing
         /\ error' = NoError
         /\ inflight' = Append(inflight, OptimizeRequest)

\* runOptimization up to its return or its await.
runOptimization ==
    IF NoZonesLoaded(city)
    THEN /\ error' = ErrNoZones
         /\ UNCHANGED <<optimizing, inflight>>
    ELSE /\ Room(1)
         /\ optimizing' = TRUE
         /\ error' = NoError
         /\ inflight' = Append(inflight, OptimizeRequest)

\* The run button.
ClickRun ==
    /\ mounted
    /\ ~RunControlDisabled
    /\ runOptimization
    /\ UNCHANGED <<panelVars, mounted, city, loading, weights, selectedZoneId,
                   optimizationResponse, optimizerType, dataSource,
                   applyingWeights, settings, dbResults, selectedDbResultId,
                   loadingDbResults>>

\* runOptimization after its await, answered with response.data.
OptimizeOk(i, data) ==
    /\ i \in Pending("optimize")
    /\ optimizationResponse' = data
    /\ optimizing' = FALSE
    /\ inflight' = Remove(inflight, i)
    /\ UNCHANGED <<panelVars, mounted, city, loading, error, weights, selectedZoneId,
                   optimizerType, dataSource, applyingWeights, settings,
                   dbResults, selectedDbResultId, loadingDbResults>>

\* runOptimization after its await, failed.
OptimizeFail(i) ==
    /\ i \in Pending("optimize")
    /\ error' = ErrOptimize
    /\ optimizing' = FALSE
    /\ inflight' = Remove(inflight, i)
    /\ UNCHANGED <<panelVars, mounted, city, loading, weights, selectedZoneId,
                   optimizationResponse, optimizerType, dataSource,
                   applyingWeights, settings, dbResults, selectedDbResultId,
                   loadingDbResults>>

\* ---------------------------------------------- applyOptimizationWeights
\* Mutant: the fee of the result added to the fee the zone already carries.
MergeZoneAccumulates(zone, selectedSolution) ==
    LET updatedZone == FindById(selectedSolution.zones, zone.id)
    IN  IF Truthy(updatedZone)
        THEN Overlay(zone, [new_fee |-> Coalesce(Get(zone, "new_fee"), 0) + updatedZone.new_fee,
                            predicted_occupancy |-> updatedZone.predicted_occupancy])
        ELSE zone

\* Mutant: the selected fee written over the fee in force as well.
MergeZoneOverwritesFee(zone, selectedSolution) ==
    LET updatedZone == FindById(selectedSolution.zones, zone.id)
    IN  IF Truthy(updatedZone)
        THEN Overlay(zone, [new_fee |-> updatedZone.new_fee,
                            current_fee |-> updatedZone.new_fee,
                            predicted_occupancy |-> updatedZone.predicted_occupancy])
        ELSE zone

\* The setCity updater: the selected scenario joined into the zones by id.
MergeZone(zone, selectedSolution) ==
    LET updatedZone == FindById(selectedSolution.zones, zone.id)
    IN  IF Truthy(updatedZone)
        THEN Overlay(zone, [new_fee |-> updatedZone.new_fee,
                            predicted_occupancy |-> updatedZone.predicted_occupancy])
        ELSE zone

\* Mutant: the zone results aligned with the zones by position.
MergeScenarioByPosition(prevCity, selectedSolution) ==
    IF ~Truthy(prevCity) \/ "parking_zones" \notin DOMAIN prevCity
    THEN prevCity
    ELSE [prevCity EXCEPT !.parking_zones =
             [k \in 1..Len(@) |->
                 IF k <= Len(selectedSolution.zones)
                 THEN Overlay(@[k],
                        [new_fee |-> selectedSolution.zones[k].new_fee,
                         predicted_occupancy |-> selectedSolution.zones[k].predicted_occupancy])
                 ELSE @[k]]]

MergeScenario(prevCity, selectedSolution) ==
    IF ~Truthy(prevCity) \/ "parking_zones" \notin DOMAIN prevCity
    THEN prevCity
    ELSE [prevCity EXCEPT !.parking_zones =
             [k \in 1..Len(@) |-> MergeZone(@[k], selectedSolution)]]

\* new Map(zones.map(zone => [zone.id, zone])).get(id): the last entry wins.
ZoneById(zones, id) ==
    IF \E i \in 1..Len(zones) : zones[i].id = id
    THEN zones[CHOOSE i \in 1..Len(zones) :
              zones[i].id = id /\ \A j \in (i+1)..Len(zones) : zones[j].id # id]
    ELSE Null

\* original?.field
Opt(original, f) == IF Truthy(original) THEN Get(original, f) ELSE Undefined

\* original?.name || `Zone ${id}`
NameOrDefault(original, id) ==
    IF Truthy(original) /\ "name" \in DOMAIN original /\ original.name # NoName
    THEN original.name
    ELSE DefaultName(id)

\* The map_snapshot applyOptimizationWeights persists: one entry per zone
\* result of the selected scenario, completed from the zones of the city
\* that the handler's closure holds.
ApplySnapshotEntry(zones, zoneResult) ==
    LET original == ZoneById(zones, zoneResult.id)
    IN  [id |-> zoneResult.id,
         name |-> NameOrDefault(original, zoneResult.id),
         position |-> Opt(original, "position"),
         current_fee |-> Opt(original, "current_fee"),
         maximum_capacity |-> OrElse(Opt(original, "maximum_capacity"), Opt(original, "capacity")),
         current_capacity |-> OrElse(Opt(original, "current_capacity"), Opt(original, "occupancy")),
         new_fee |-> zoneResult.new_fee,
         predicted_occupancy |-> zoneResult.predicted_occupancy,
         predicted_revenue |-> zoneResult.predicted_revenue]

ApplySnapshot(closureCity, selectedSolution) ==
    [k \in 1..Len(selectedSolution.zones) |->
        ApplySnapshotEntry(closureCity.parking_zones, selectedSolution.zones[k])]

\* One entry of buildMapSnapshotFromZones.
MapSnapshotEntry(zone) ==
    [id |-> zone.id,
     name |-> NameOrDefault(zone, zone.id),
     position |-> Get(zone, "position"),
     current_fee |-> Get(zone, "current_fee"),
     maximum_capacity |-> OrElse(Get(zone, "maximum_capacity"), Get(zone, "capacity")),
     current_capacity |-> OrElse(Get(zone, "current_capacity"), Get(zone, "occupancy")),
     new_fee |-> Get(zone, "new_fee"),
     predicted_occupancy |-> Get(zone, "predicted_occupancy"),
     predicted_revenue |-> Get(zone, "predicted_revenue")]

\* buildMapSnapshotFromZones
buildMapSnapshotFromZones(zones) ==
    [k \in 1..Len(zones) |-> MapSnapshotEntry(zones[k])]

\* city?.parking_zones || []
ZonesOrNone(c) ==
    IF Truthy(c) /\ "parking_zones" \in DOMAIN c THEN c.parking_zones ELSE <<>>

RECURSIVE SumPositions(_)
SumPositions(zones) ==
    IF zones = <<>> THEN 0
    ELSE OrElse(Get(Head(zones), "position"), 0) + SumPositions(Tail(zones))

\* buildMapCenter, on position codes (the average by integer division).
buildMapCenter(zones) ==
    IF Len(zones) = 0 THEN 49 ELSE SumPositions(zones) \div Len(zones)

\* The best_scenario applyOptimizationWeights persists.
BestScenarioOf(selectedSolution) ==
    [scenario_id |-> selectedSolution.scenario_id,
     score_revenue |-> selectedSolution.score_revenue,
     score_occupancy_gap |-> selectedSolution.score_occupancy_gap,
     score_demand_drop |-> selectedSolution.score_demand_drop,
     score_user_balance |-> selectedSolution.score_user_balance]

\* saveResultToDb up to its await: the body of POST /results, built from
\* the cells of the render whose handler calls it.
SaveBody(closure, mapSnapshot, bestScenario, optimizationResponseData) ==
    [parameters |-> [optimizer_type |-> closure.optimizerType,
                     weights |-> closure.weights,
                     settings |-> closure.settings,
                     zone_count |-> Len(ZonesOrNone(closure.city))],
     map_config |-> [center |-> buildMapCenter(ZonesOrNone(closure.city)), zoom |-> 13],
     map_snapshot |-> mapSnapshot,
     best_scenario |-> bestScenario,
     optimization_response |-> optimizationResponseData]

\* The cells a handler reads through its closure.
Closure ==
    [city |-> city, optimizationResponse |-> optimizationResponse,
     weights |-> weights, optimizerType |-> optimizerType, settings |-> settings]

\* weightsDict: the four weights the selection request carries.
WeightsDict(w) ==
    [revenue |-> w.revenue, occupancy |-> w.occupancy,
     drop |-> w.drop, fairness |-> w.fairness]

\* The request applyOptimizationWeights sends.  A held value without
\* scenarios sends none, which the backend answers like an empty list: with
\* a failure.
SelectRequest ==
    [kind |-> "select", scenarios |-> GetSeq(optimizationResponse, "scenarios"),
     weights |-> WeightsDict(weights), closure |-> Closure]

\* Mutant: setApplyingWeights(true) moved in front of the guard.
applyOptimizationWeightsFlagFirst ==
    IF ~Truthy(optimizationResponse)
    THEN /\ error' = ErrNoResults
         /\ applyingWeights' = TRUE
         /\ UNCHANGED inflight
    ELSE /\ Room(1)
         /\ applyingWeights' = TRUE
         /\ error' = NoError
         /\ inflight' = Append(inflight, SelectRequest)

\* applyOptimizationWeights up to its return or its await.
applyOptimizationWeights ==
    IF ~Truthy(optimizationResponse)
    THEN /\ error' = ErrNoResults
         /\ UNCHANGED <<applyingWeights, inflight>>
    ELSE /\ Room(1)
         /\ applyingWeights' = TRUE
         /\ error' = NoError
         /\ inflight' = Append(inflight, SelectRequest)

\* The Apply Weights button of the menu panel.
ClickApply ==
    /\ mounted
    /\ ~ApplyControlDisabled
    /\ applyOptimizationWeights
    /\ UNCHANGED <<panelVars, mounted, city, loading, weights, selectedZoneId,
                   optimizationResponse, optimizerType, dataSource, optimizing,
                   settings, dbResults, selectedDbResultId, loadingDbResults>>

\* onApply called where the button does not guard it.
CallApplyWithoutResults ==
    /\ mounted
    /\ ~Truthy(optimizationResponse)
    /\ applyOptimizationWeights
    /\ UNCHANGED <<panelVars, mounted, city, loading, weights, selectedZoneId,
                   optimizationResponse, optimizerType, dataSource, optimizing,
                   settings, dbResults, selectedDbResultId, loadingDbResults>>

\* Mutant: saveResultToDb called without optimizationResponseData.
ApplySaveRequestWithoutResponse(closure, selectedSolution) ==
    [kind |-> "save", origin |-> "apply",
     body |-> SaveBody(closure, ApplySnapshot(closure.city, selectedSolution),
                       BestScenarioOf(selectedSolution), Null)]

\* The POST /results that follows a selection.
ApplySaveRequest(closure, selectedSolution) ==
    [kind |-> "save", origin |-> "apply",
     body |-> SaveBody(closure, ApplySnapshot(closure.city, selectedSolution),
                       BestScenarioOf(selectedSolution),
                       closure.optimizationResponse)]

\* Mutant: the answered selection replaces the held response by the one
\* scenario it selected.
SelectOkKeepsSelectionOnly(i, data) ==
    /\ i \in Pending("select")
    /\ city' = MergeScenario(city, data.scenario)
    /\ optimizationResponse' = [scenarios |-> <<data.scenario>>]
    /\ inflight' = Remove(inflight, i)
    /\ applyingWeights' = FALSE
    /\ UNCHANGED <<panelVars, mounted, loading, error, weights, selectedZoneId,
                   optimizerType, dataSource, optimizing,
                   settings, dbResults, selectedDbResultId, loadingDbResults>>

\* applyOptimizationWeights after the selection is answered: the merge, then
\* the snapshot and saveResultToDb up to its await.  city.parking_zones of
\* a null closure city throws, which the handler's catch reports.
SelectOk(i, data) ==
    /\ i \in Pending("select")
    /\ LET closure == inflight[i].closure
           selectedSolution == data.scenario
       IN  /\ city' = MergeScenario(city, selectedSolution)
           /\ IF Truthy(closure.city)
              THEN /\ inflight' = Append(Remove(inflight, i),
                                         ApplySaveRequest(closure, selectedSolution))
                   /\ UNCHANGED <<error, applyingWeights>>
              ELSE /\ inflight' = Remove(inflight, i)
                   /\ error' = ErrApply
                   /\ applyingWeights' = FALSE
    /\ UNCHANGED <<panelVars, mounted, loading, weights, selectedZoneId,
                   optimizationResponse, optimizerType, dataSource, optimizing,
                   settings, dbResults, selectedDbResultId, loadingDbResults>>

\* applyOptimizationWeights after the selection request failed.
SelectFail(i) ==
    /\ i \in Pending("select")
    /\ error' = ErrApply
    /\ applyingWeights' = FALSE
    /\ inflight' = Remove(inflight, i)
    /\ UNCHANGED <<panelVars, mounted, city, loading, weights, selectedZoneId,
                   optimizationResponse, optimizerType, dataSource, optimizing,
                   settings, dbResults, selectedDbResultId, loadingDbResults>>

\* saveResultToDb after its await, answered: fetchDbResults is started; an
\* applyOptimizationWeights that awaited it runs to its end.
SaveOk(i) ==
    /\ i \in Pending("save")
    /\ FetchDbResultsStart(Append(Remove(inflight, i), ListRequest))
    /\ applyingWeights' = IF inflight[i].origin = "apply" THEN FALSE ELSE applyingWeights
    /\ UNCHANGED <<panelVars, mounted, city, loading, error, weights, selectedZoneId,
                   optimizationResponse, optimizerType, dataSource, optimizing,
                   settings, dbResults, selectedDbResultId>>

\* Mutant: the failure of the POST leaves applyOptimizationWeights waiting.
SaveFailKeepsFlag(i) ==
    /\ i \in Pending("save")
    /\ inflight' = Remove(inflight, i)
    /\ UNCHANGED <<panelVars, mounted, city, loading, error, weights, selectedZoneId,
                   optimizationResponse, optimizerType, dataSource, optimizing,
                   applyingWeights, settings, dbResults, selectedDbResultId,
                   loadingDbResults>>

\* saveResultToDb after its await, failed: logged only.
SaveFail(i) ==
    /\ i \in Pending("save")
    /\ inflight' = Remove(inflight, i)
    /\ applyingWeights' = IF inflight[i].origin = "apply" THEN FALSE ELSE applyingWeights
    /\ UNCHANGED <<panelVars, mounted, city, loading, error, weights, selectedZoneId,
                   optimizationResponse, optimizerType, dataSource, optimizing,
                   settings, dbResults, selectedDbResultId, loadingDbResults>>

\* ------------------------------------------------- handleDownloadResults
\* The POST /results of a download.
DownloadSaveRequest ==
    [kind |-> "save", origin |-> "download",
     body |-> SaveBody(Closure, buildMapSnapshotFromZones(city.parking_zones),
                       Null, optimizationResponse)]

\* handleDownloadResults: the file is offered, then the snapshot is posted
\* when the city has zones.
handleDownloadResults ==
    IF ~Truthy(optimizationResponse)
    THEN /\ error' = ErrNoDownload
         /\ UNCHANGED inflight
    ELSE /\ Room(1)
         /\ inflight' = IF Len(ZonesOrNone(city)) > 0
                        THEN Append(inflight, DownloadSaveRequest)
                        ELSE inflight
         /\ UNCHANGED error

\* The Download button.
ClickDownload ==
    /\ mounted
    /\ ~DownloadControlDisabled
    /\ handleDownloadResults
    /\ UNCHANGED <<panelVars, mounted, city, loading, weights, selectedZoneId,
                   optimizationResponse, optimizerType, dataSource, optimizing,
                   applyingWeights, settings, dbResults, selectedDbResultId,
                   loadingDbResults>>

\* ---------------------------------------------------------- loadDbResult
\* The cells of the session that saved the stored results.
SavedClosure ==
    [city |-> CityA, optimizationResponse |-> Optimizer(CityA),
     weights |-> InitialWeights,
     optimizerType |-> "elasticity", settings |-> InitialSettings]

\* A result as applyOptimizationWeights posts it.
SavedWithResponse ==
    ApplySaveRequest(SavedClosure, FullScenario(CityA.parking_zones)).body

\* A result stored without the optimizer's response.
SavedFinalOnly == [SavedWithResponse EXCEPT !.optimization_response = Null]

\* A result whose snapshot is empty.
SavedNoSnapshot == [SavedWithResponse EXCEPT !.map_snapshot = <<>>]

\* What GET /results/:id can answer.
SavedResults == {SavedWithResponse, SavedFinalOnly, SavedNoSnapshot}

\* A result of which only the id of one snapshot entry was stored.
SavedPartial == [map_snapshot |-> <<[id |-> 1]>>]

\* A result whose saved weights carry a fifth key.
SavedExtraWeight ==
    [SavedWithResponse EXCEPT
        !.parameters.weights = Overlay(@, [emissions |-> 20])]

\* A result stored without a map_snapshot, its parameters and response kept.
SavedMissingSnapshot ==
    [parameters |-> SavedExtraWeight.parameters,
     optimization_response |-> Optimizer(CityA)]

\* What GET /results/:id can answer when the store also holds results that
\* other clients wrote.
SavedResultsAnyShape ==
    SavedResults \cup {SavedPartial, SavedExtraWeight, SavedMissingSnapshot}

\* Mutant: the decision fields of the snapshot are restored as well.
RestoreZoneFreshKeepsDecision(zone) ==
    [id |-> zone.id,
     name |-> GetStr(zone, "name"),
     position |-> Get(zone, "position"),
     current_fee |-> Coalesce(Get(zone, "current_fee"), 0),
     maximum_capacity |-> Coalesce(Get(zone, "maximum_capacity"), 0),
     capacity |-> Coalesce(Get(zone, "maximum_capacity"), 0),
     current_capacity |-> Coalesce(Get(zone, "current_capacity"), 0),
     occupancy |-> Coalesce(Get(zone, "current_capacity"), 0),
     new_fee |-> Get(zone, "new_fee"),
     predicted_occupancy |-> Get(zone, "predicted_occupancy"),
     predicted_revenue |-> Get(zone, "predicted_revenue"),
     elasticity |-> Coalesce(Get(zone, "elasticity"), 0 - 4),
     short_term_share |-> Coalesce(Get(zone, "short_term_share"), 5),
     min_fee |-> Coalesce(Get(zone, "min_fee"), 5),
     max_fee |-> Coalesce(Get(zone, "max_fee"), 50)]

\* A zone rebuilt from a snapshot entry, without the decision fields.
RestoreZoneFresh(zone) ==
    [id |-> zone.id,
     name |-> GetStr(zone, "name"),
     position |-> Get(zone, "position"),
     current_fee |-> Coalesce(Get(zone, "current_fee"), 0),
     maximum_capacity |-> Coalesce(Get(zone, "maximum_capacity"), 0),
     capacity |-> Coalesce(Get(zone, "maximum_capacity"), 0),
     current_capacity |-> Coalesce(Get(zone, "current_capacity"), 0),
     occupancy |-> Coalesce(Get(zone, "current_capacity"), 0),
     elasticity |-> Coalesce(Get(zone, "elasticity"), 0 - 4),
     short_term_share |-> Coalesce(Get(zone, "short_term_share"), 5),
     min_fee |-> Coalesce(Get(zone, "min_fee"), 5),
     max_fee |-> Coalesce(Get(zone, "max_fee"), 50)]

\* Mutant: the final zone restored with the two fields that the merge of a
\* selection writes, the predicted revenue left out.
RestoreZoneFinalDropsRevenue(zone) ==
    Overlay(RestoreZoneFresh(zone),
            [new_fee |-> Get(zone, "new_fee"),
             predicted_occupancy |-> Get(zone, "predicted_occupancy")])

\* A zone rebuilt from a snapshot entry, with the decision fields it held.
RestoreZoneFinal(zone) ==
    Overlay(RestoreZoneFresh(zone),
            [new_fee |-> Get(zone, "new_fee"),
             predicted_occupancy |-> Get(zone, "predicted_occupancy"),
             predicted_revenue |-> Get(zone, "predicted_revenue")])

\* result.parameters?.settings?.common?.cityName
\*   || result.parameters?.city_name || 'Loaded from DB'
RestoredCityName(result) ==
    LET parameters == GetObj(result, "parameters")
        cityName == GetStr(GetObj(GetObj(parameters, "settings"), "common"), "cityName")
        city_name == GetStr(parameters, "city_name")
    IN  IF cityName # "" THEN cityName
        ELSE IF city_name # "" THEN city_name ELSE "Loaded from DB"

\* result.optimization_response && result.optimization_response.scenarios
HasScenarios(result) ==
    "scenarios" \in DOMAIN GetObj(result, "optimization_response")

\* The city loadDbResult stores.
RestoredCity(result) ==
    [name |-> RestoredCityName(result),
     parking_zones |->
        IF HasScenarios(result)
        THEN [k \in 1..Len(result.map_snapshot) |-> RestoreZoneFresh(result.map_snapshot[k])]
        ELSE [k \in 1..Len(result.map_snapshot) |-> RestoreZoneFinal(result.map_snapshot[k])],
     point_of_interests |-> <<>>]

\* The response loadDbResult stores.
RestoredResponse(result) ==
    IF HasScenarios(result) THEN result.optimization_response ELSE Null

\* The saved-result select.
SelectDbResult(id) ==
    /\ mounted
    /\ id # selectedDbResultId
    /\ id = "" \/ \E k \in 1..Len(dbResults) : dbResults[k] = id
    /\ selectedDbResultId' = id
    /\ UNCHANGED <<panelVars, mounted, city, loading, error, weights, selectedZoneId,
                   optimizationResponse, optimizerType, dataSource, optimizing,
                   applyingWeights, settings, dbResults, loadingDbResults,
                   inflight>>

\* loadDbResult up to its return or its await.
loadDbResult ==
    IF selectedDbResultId = ""
    THEN UNCHANGED <<loading, error, inflight>>
    ELSE /\ Room(1)
         /\ loading' = TRUE
         /\ error' = NoError
         /\ inflight' = Append(inflight, [kind |-> "get_result", id |-> selectedDbResultId])

\* The Load DB button.
ClickLoadDb ==
    /\ mounted
    /\ ~LoadDbControlDisabled
    /\ loadDbResult
    /\ UNCHANGED <<panelVars, mounted, city, weights, selectedZoneId, optimizationResponse,
                   optimizerType, dataSource, optimizing, applyingWeights,
                   settings, dbResults, selectedDbResultId, loadingDbResults>>

\* loadDbResult called where the Load DB button does not guard it, with no
\* saved result selected.
CallLoadDbWithoutSelection ==
    /\ mounted
    /\ selectedDbResultId = ""
    /\ loadDbResult
    /\ UNCHANGED <<panelVars, mounted, city, weights, selectedZoneId, optimizationResponse,
                   optimizerType, dataSource, optimizing, applyingWeights,
                   settings, dbResults, selectedDbResultId, loadingDbResults>>

\* Mutant: the missing snapshot is reported without the return, so the
\* saved response and parameters are restored after it.
LoadDbOkReportsAndRestores(i, result) ==
    /\ i \in Pending("get_result")
    /\ inflight' = Remove(inflight, i)
    /\ loading' = FALSE
    /\ LET parameters == GetObj(result, "parameters")
           savedWeights == GetObj(parameters, "weights")
           empty == GetSeq(result, "map_snapshot") = <<>>
       IN  /\ error' = IF empty THEN ErrNoSnapshot ELSE error
           /\ optimizationResponse' = RestoredResponse(result)
           /\ city' = IF empty THEN city ELSE RestoredCity(result)
           /\ weights' = IF Truthy(savedWeights)
                         THEN Overlay(weights, savedWeights) ELSE weights
           /\ selectedZoneId' = NoZone
           /\ UNCHANGED <<optimizerType, settings>>
    /\ UNCHANGED <<panelVars, mounted, dataSource, optimizing, applyingWeights, dbResults,
                   selectedDbResultId, loadingDbResults>>

\* Mutant: the restore is followed by the effect of [dataSource], as if the
\* restore changed one of the effect's dependencies.
LoadDbOkThenReloads(i, result) ==
    /\ i \in Pending("get_result")
    /\ GetSeq(result, "map_snapshot") # <<>>
    /\ Len(inflight) + 1 <= MaxInFlight
    /\ dataSource' = dataSource
    /\ FetchCityStart(Remove(inflight, i) \o <<FetchCityRequest, ListRequest>>)
    /\ loadingDbResults' = TRUE
    /\ LET parameters == GetObj(result, "parameters")
           savedWeights == GetObj(parameters, "weights")
           savedOptimizer == GetStr(parameters, "optimizer_type")
           savedSettings == GetObj(parameters, "settings")
       IN  /\ optimizationResponse' = RestoredResponse(result)
           /\ city' = RestoredCity(result)
           /\ weights' = IF Truthy(savedWeights)
                         THEN Overlay(weights, savedWeights) ELSE weights
           /\ optimizerType' = IF savedOptimizer # ""
                               THEN savedOptimizer ELSE optimizerType
           /\ settings' = IF Truthy(savedSettings)
                          THEN Overlay(settings, savedSettings) ELSE settings
           /\ selectedZoneId' = NoZone
    /\ UNCHANGED <<panelVars, mounted, optimizing, applyingWeights, dbResults,
                   selectedDbResultId>>

\* loadDbResult after its await, answered with result.
LoadDbOk(i, result) ==
    /\ i \in Pending("get_result")
    /\ inflight' = Remove(inflight, i)
    /\ loading' = FALSE
    /\ IF GetSeq(result, "map_snapshot") = <<>>
       THEN /\ error' = ErrNoSnapshot
            /\ UNCHANGED <<city, optimizationResponse, weights, optimizerType,
                           settings, selectedZoneId>>
       ELSE LET parameters == GetObj(result, "parameters")
                savedWeights == GetObj(parameters, "weights")
                savedOptimizer == GetStr(parameters, "optimizer_type")
                savedSettings == GetObj(parameters, "settings")
            IN  /\ optimizationResponse' = RestoredResponse(result)
                /\ city' = RestoredCity(result)
                /\ weights' = IF Truthy(savedWeights)
                              THEN Overlay(weights, savedWeights) ELSE weights
                /\ optimizerType' = IF savedOptimizer # ""
                                    THEN savedOptimizer ELSE optimizerType
                /\ settings' = IF Truthy(savedSettings)
                               THEN Overlay(settings, savedSettings) ELSE settings
                /\ selectedZoneId' = NoZone
                /\ UNCHANGED error
    /\ UNCHANGED <<panelVars, mounted, dataSource, optimizing, applyingWeights, dbResults,
                   selectedDbResultId, loadingDbResults>>

\* Mutant: the catch of loadDbResult with no finally after it.
LoadDbFailKeepsLoading(i) ==
    /\ i \in Pending("get_result")
    /\ error' = ErrLoadDb
    /\ inflight' = Remove(inflight, i)
    /\ UNCHANGED <<panelVars, mounted, city, loading, weights, selectedZoneId,
                   optimizationResponse, optimizerType, dataSource, optimizing,
                   applyingWeights, settings, dbResults, selectedDbResultId,
                   loadingDbResults>>

\* loadDbResult after its await, failed.
LoadDbFail(i) ==
    /\ i \in Pending("get_result")
    /\ error' = ErrLoadDb
    /\ loading' = FALSE
    /\ inflight' = Remove(inflight, i)
    /\ UNCHANGED <<panelVars, mounted, city, weights, selectedZoneId, optimizationResponse,
                   optimizerType, dataSource, optimizing, applyingWeights,
                   settings, dbResults, selectedDbResultId, loadingDbResults>>

\* ------------------------------------------------------------- JSON text
\* A document is the sequence of the tokens of its text.
Tok(t) == [t |-> t, v |-> ""]
StringTok(str) == [t |-> "string", v |-> str]

RECURSIVE Digits(_)
Digits(n) == IF n < 10 THEN <<n>> ELSE Append(Digits(n \div 10), n % 10)

RECURSIVE ValueOfDigits(_)
ValueOfDigits(ds) ==
    IF Len(ds) = 0 THEN 0
    ELSE 10 * ValueOfDigits(SubSeq(ds, 1, Len(ds) - 1)) + ds[Len(ds)]

\* Mutant: the number written without its last decimal (toFixed).
FormatNumberFixed(n) ==
    [t |-> "number", neg |-> n < 0,
     v |-> Digits(10 * ((IF n < 0 THEN 0 - n ELSE n) \div 10))]

\* JSON.stringify of a number: its sign and its decimal digits.
FormatNumber(n) ==
    [t |-> "number", neg |-> n < 0, v |-> Digits(IF n < 0 THEN 0 - n ELSE n)]

\* The number a number token denotes.
NumberOf(tok) == IF tok.neg THEN 0 - ValueOfDigits(tok.v) ELSE ValueOfDigits(tok.v)

\* The keys of an OptimizationResponse that hold arrays (of objects); the
\* other keys hold numbers.
ArrayKeys == {"scenarios", "zones"}

\* The keys of an object, in the order they are written.
RECURSIVE KeySeq(_)
KeySeq(keys) ==
    IF keys = {} THEN <<>>
    ELSE LET k == CHOOSE x \in keys : TRUE
         IN  <<k>> \o KeySeq(keys \ {k})

\* JSON.stringify of an object of the shape of an OptimizationResponse, of
\* its members (each led by a comma) and of the elements of an array.  A
\* member whose value is undefined is left out.
RECURSIVE StringifyObject(_), StringifyMembers(_, _), StringifyElements(_, _)
StringifyObject(obj) ==
    IF obj = Null THEN <<Tok("null")>>
    ELSE LET members == StringifyMembers(obj, KeySeq(DOMAIN obj))
         IN  <<Tok("{")>>
             \o (IF members = <<>> THEN <<>> ELSE Tail(members))
             \o <<Tok("}")>>

StringifyMembers(obj, keys) ==
    IF keys = <<>> THEN <<>>
    ELSE LET k == Head(keys)
             rest == StringifyMembers(obj, Tail(keys))
         IN  IF k \in ArrayKeys
             THEN <<Tok(","), StringTok(k), Tok(":"), Tok("[")>>
                  \o StringifyElements(obj[k], 1) \o <<Tok("]")>> \o rest
             ELSE IF obj[k] = Undefined THEN rest
             ELSE <<Tok(","), StringTok(k), Tok(":"), FormatNumber(obj[k])>> \o rest

StringifyElements(arr, k) ==
    IF k > Len(arr) THEN <<>>
    ELSE (IF k = 1 THEN <<>> ELSE <<Tok(",")>>)
         \o StringifyObject(arr[k]) \o StringifyElements(arr, k + 1)

\* The kind of the token at a position, "eof" past the end.
TokAt(doc, pos) == IF pos <= Len(doc) THEN doc[pos].t ELSE "eof"

\* A parse that found no value.
NoParse == [ok |-> FALSE, value |-> Null, next |-> 0]

\* JSON.parse: the value that starts at a position and the position after
\* it; the elements of an array; the members of an object (a repeated key
\* keeps its last value).
RECURSIVE ParseValue(_, _), ParseElements(_, _, _), ParseMembers(_, _, _)
ParseValue(doc, pos) ==
    CASE TokAt(doc, pos) = "null" -> [ok |-> TRUE, value |-> Null, next |-> pos + 1]
      [] TokAt(doc, pos) = "number" ->
            [ok |-> TRUE, value |-> NumberOf(doc[pos]), next |-> pos + 1]
      [] TokAt(doc, pos) = "string" ->
            [ok |-> TRUE, value |-> doc[pos].v, next |-> pos + 1]
      [] TokAt(doc, pos) = "[" ->
            IF TokAt(doc, pos + 1) = "]"
            THEN [ok |-> TRUE, value |-> <<>>, next |-> pos + 2]
            ELSE ParseElements(doc, pos + 1, <<>>)
      [] TokAt(doc, pos) = "{" ->
            IF TokAt(doc, pos + 1) = "}"
            THEN [ok |-> TRUE, value |-> <<>>, next |-> pos + 2]
            ELSE ParseMembers(doc, pos + 1, <<>>)
      [] OTHER -> NoParse

ParseElements(doc, pos, acc) ==
    LET r == ParseValue(doc, pos)
    IN  IF ~r.ok THEN NoParse
        ELSE IF TokAt(doc, r.next) = ","
             THEN ParseElements(doc, r.next + 1, Append(acc, r.value))
        ELSE IF TokAt(doc, r.next) = "]"
             THEN [ok |-> TRUE, value |-> Append(acc, r.value), next |-> r.next + 1]
        ELSE NoParse

ParseMembers(doc, pos, acc) ==
    IF TokAt(doc, pos) # "string" \/ TokAt(doc, pos + 1) # ":" THEN NoParse
    ELSE LET r == ParseValue(doc, pos + 2)
             obj == Overlay(acc, [k \in {doc[pos].v} |-> r.value])
         IN  IF ~r.ok THEN NoParse
             ELSE IF TokAt(doc, r.next) = ","
                  THEN ParseMembers(doc, r.next + 1, obj)
             ELSE IF TokAt(doc, r.next) = "}"
                  THEN [ok |-> TRUE, value |-> obj, next |-> r.next + 1]
             ELSE NoParse

\* JSON.parse(content): the value of the whole text, or a SyntaxError.
JSONparse(doc) ==
    LET r == ParseValue(doc, 1)
    IN  IF r.ok /\ r.next = Len(doc) + 1 THEN r ELSE NoParse

\* ------------------------------------ the exported and imported document
\* JSON.stringify(optimizationResponse, null, 2): the text of the file that
\* handleDownloadResults offers.
DownloadedDocument(response) == StringifyObject(response)

\* The responses whose downloaded file the operator has on disk.
ExportedResponses == {Optimizer(CityA)}

\* A file that holds the text null.
NullDocument == <<Tok("null")>>

\* A file that holds JSON of another shape: {"version": 1}.
OtherShapeDocument ==
    <<Tok("{"), StringTok("version"), Tok(":"), FormatNumber(1), Tok("}")>>

\* A file that is cut off after its first tokens: not JSON.
TruncatedDocument == SubSeq(DownloadedDocument(Optimizer(CityA)), 1, 5)

\* The files the operator can choose in the file input.
Files ==
    {DownloadedDocument(r) : r \in ExportedResponses}
        \cup {NullDocument, OtherShapeDocument, TruncatedDocument}

\* handleLoadResults: the file is chosen and reader.readAsText is started.
handleLoadResults(doc) ==
    /\ mounted
    /\ Room(1)
    /\ inflight' = Append(inflight, [kind |-> "read_file", doc |-> doc])
    /\ UNCHANGED <<panelVars, mounted, city, loading, error, weights, selectedZoneId,
                   optimizationResponse, optimizerType, dataSource, optimizing,
                   applyingWeights, settings, dbResults, selectedDbResultId,
                   loadingDbResults>>

\* reader.onload: JSON.parse of the text, then setOptimizationResponse.  A
\* SyntaxError leaves the callback before anything is set; for the text
\* null the cell is set and results.scenarios then throws.  Neither
\* exception is caught: the try of handleLoadResults has been left.
ReaderOnLoad(i) ==
    /\ i \in Pending("read_file")
    /\ inflight' = Remove(inflight, i)
    /\ LET results == JSONparse(inflight[i].doc)
       IN  optimizationResponse' =
               IF results.ok THEN results.value ELSE optimizationResponse
    /\ UNCHANGED <<panelVars, mounted, city, loading, error, weights, selectedZoneId,
                   optimizerType, dataSource, optimizing, applyingWeights,
                   settings, dbResults, selectedDbResultId, loadingDbResults>>

\* ------------------------------------------------------ the other inputs
\* A weight slider of the menu panel: setWeights(prev => ({...prev, [key]: value})).
MoveSlider(key, value) ==
    /\ mounted
    /\ weights[key] # value
    /\ weights' = Overlay(weights, [k \in {key} |-> value])
    /\ UNCHANGED <<panelVars, mounted, city, loading, error, selectedZoneId,
                   optimizationResponse, optimizerType, dataSource, optimizing,
                   applyingWeights, settings, dbResults, selectedDbResultId,
                   loadingDbResults, inflight>>

\* Mutant: the effect of [dataSource] listing optimizerType in its dependencies.
ChangeOptimizerTypeReloads(t) ==
    /\ mounted
    /\ t # optimizerType
    /\ optimizerType' = t
    /\ dataSource' = dataSource
    /\ DataSourceEffect
    /\ UNCHANGED <<panelVars, mounted, city, weights, selectedZoneId,
                   optimizationResponse, optimizing, applyingWeights,
                   settings, dbResults, selectedDbResultId>>

\* The optimizer select: setOptimizerType.
ChangeOptimizerType(t) ==
    /\ mounted
    /\ t # optimizerType
    /\ optimizerType' = t
    /\ UNCHANGED <<panelVars, mounted, city, loading, error, weights, selectedZoneId,
                   optimizationResponse, dataSource, optimizing,
                   applyingWeights, settings, dbResults, selectedDbResultId,
                   loadingDbResults, inflight>>

\* A click on a zone marker (onZoneClick), or the info panel closed.
SelectZone(id) ==
    /\ mounted
    /\ id # selectedZoneId
    /\ id = NoZone \/ id \in IdsOf(ZonesOrNone(city))
    /\ selectedZoneId' = id
    /\ UNCHANGED <<panelVars, mounted, city, loading, error, weights,
                   optimizationResponse, optimizerType, dataSource, optimizing,
                   applyingWeights, settings, dbResults, selectedDbResultId,
                   loadingDbResults, inflight>>

\* --------------------------------------------------- OptimizationSettings
\* updateSetting: {...prev, [category]: {...prev[category], [key]: value}}
UpdatedSetting(prev, category, key, value) ==
    Overlay(prev, [c \in {category} |->
                      Overlay(prev[category], [k \in {key} |-> value])])

\* The render is up to date: neither effect of the panel has a changed
\* dependency.
SettingsRendered ==
    /\ panel.externalSettings = settings
    /\ panel.renderedSettings = panel.settings

\* A render of App and the panel after settings changed, with the effects
\* that follow the commit: the first effect copies the changed prop with
\* setSettings(externalSettings), the second calls onSettingsChange with
\* the settings of this render, which is App's setSettings.
RenderSettings ==
    /\ mounted
    /\ ~SettingsRendered
    /\ panel' = [settings |-> IF panel.externalSettings # settings
                             THEN settings ELSE panel.settings,
                 externalSettings |-> settings,
                 renderedSettings |-> panel.settings]
    /\ settings' = IF panel.renderedSettings # panel.settings
                   THEN panel.settings ELSE settings
    /\ UNCHANGED <<infoPanel, settingsChanges, mounted, city, loading, error, weights,
                   selectedZoneId, optimizationResponse, optimizerType,
                   dataSource, optimizing, applyingWeights, dbResults,
                   selectedDbResultId, loadingDbResults, inflight>>

\* The city names the operator types into the panel.
TypedCityNames == {"Mannheim"}

\* An input of the panel changed: updateSetting in the change event, whose
\* render and effects run before the event ends, so onSettingsChange has
\* been called with the edited settings.
updateSetting(category, key, value) ==
    /\ mounted
    /\ SettingsRendered
    /\ settingsChanges < MaxSettingsChanges
    /\ panel.settings[category][key] # value
    /\ LET edited == UpdatedSetting(panel.settings, category, key, value)
       IN  /\ panel' = [settings |-> edited,
                        externalSettings |-> settings,
                        renderedSettings |-> edited]
           /\ settings' = edited
    /\ settingsChanges' = settingsChanges + 1
    /\ UNCHANGED <<infoPanel, mounted, city, loading, error, weights,
                   selectedZoneId, optimizationResponse, optimizerType,
                   dataSource, optimizing, applyingWeights, dbResults,
                   selectedDbResultId, loadingDbResults, inflight>>

\* The text of an exported configuration file.
ConfigDocument ==
    <<Tok("{"), StringTok("settings"), Tok(":"),
        Tok("{"), StringTok("common"), Tok(":"),
            Tok("{"), StringTok("cityName"), Tok(":"), StringTok("Stuttgart"), Tok("}"),
        Tok(","), StringTok("optimizer"), Tok(":"), StringTok("imported"),
        Tok(","), StringTok("agent"), Tok(":"), StringTok("imported"), Tok("}"),
      Tok("}")>>

\* The files the operator can choose in the import-config input.
ConfigFiles == {ConfigDocument, OtherShapeDocument}

\* importConfig: the file is chosen and reader.readAsText is started.
importConfig(doc) ==
    /\ mounted
    /\ Room(1)
    /\ settingsChanges < MaxSettingsChanges
    /\ settingsChanges' = settingsChanges + 1
    /\ inflight' = Append(inflight, [kind |-> "read_config", doc |-> doc])
    /\ UNCHANGED <<infoPanel, panel, mounted, city, loading, error, weights,
                   selectedZoneId, optimizationResponse, optimizerType,
                   dataSource, optimizing, applyingWeights, settings, dbResults,
                   selectedDbResultId, loadingDbResults>>

\* reader.onload of importConfig: setSettings(config.settings) when the
\* parsed text has settings; a text that does not parse is answered with
\* an alert.
ConfigReaderOnLoad(i) ==
    /\ i \in Pending("read_config")
    /\ inflight' = Remove(inflight, i)
    /\ LET config == JSONparse(inflight[i].doc)
           imported == IF config.ok THEN GetObj(config.value, "settings") ELSE Null
       IN  panel' = IF Truthy(imported)
                    THEN [panel EXCEPT !.settings = imported] ELSE panel
    /\ UNCHANGED <<infoPanel, settingsChanges, mounted, city, loading, error, weights,
                   selectedZoneId, optimizationResponse, optimizerType,
                   dataSource, optimizing, applyingWeights, settings, dbResults,
                   selectedDbResultId, loadingDbResults>>

\* The points the operator picks on the map, and the names the geocoder
\* answers with (it may have none).
PickedLocations == {[center_lat |-> 49, center_lon |-> 8]}
GeocodedNames == {"Mannheim", ""}

\* handleLocationPicked up to its await.
handleLocationPicked(center_lat, center_lon) ==
    /\ mounted
    /\ Room(1)
    /\ settingsChanges < MaxSettingsChanges
    /\ settingsChanges' = settingsChanges + 1
    /\ inflight' = Append(inflight, [kind |-> "reverse_geocode",
                                     center_lat |-> center_lat,
                                     center_lon |-> center_lon])
    /\ UNCHANGED <<infoPanel, panel, mounted, city, loading, error, weights,
                   selectedZoneId, optimizationResponse, optimizerType,
                   dataSource, optimizing, applyingWeights, settings, dbResults,
                   selectedDbResultId, loadingDbResults>>

\* handleLocationPicked after its await, answered: the name and the point
\* are written into settings.common.
GeocodeOk(i, city_name) ==
    /\ i \in Pending("reverse_geocode")
    /\ inflight' = Remove(inflight, i)
    /\ LET cityName == IF city_name # "" THEN city_name ELSE "Unknown Location"
       IN  settings' =
               Overlay(settings,
                       [common |-> Overlay(settings.common,
                                           [cityName |-> cityName,
                                            centerLat |-> inflight[i].center_lat,
                                            centerLon |-> inflight[i].center_lon])])
    /\ UNCHANGED <<panelVars, mounted, city, loading, error, weights,
                   selectedZoneId, optimizationResponse, optimizerType,
                   dataSource, optimizing, applyingWeights, dbResults,
                   selectedDbResultId, loadingDbResults>>

\* handleLocationPicked after its await, failed: the point alone is written.
GeocodeFail(i) ==
    /\ i \in Pending("reverse_geocode")
    /\ inflight' = Remove(inflight, i)
    /\ settings' =
           Overlay(settings,
                   [common |-> Overlay(settings.common,
                                       [centerLat |-> inflight[i].center_lat,
                                        centerLon |-> inflight[i].center_lon])])
    /\ UNCHANGED <<panelVars, mounted, city, loading, error, weights,
                   selectedZoneId, optimizationResponse, optimizerType,
                   dataSource, optimizing, applyingWeights, dbResults,
                   selectedDbResultId, loadingDbResults>>

\* ------------------------------------------------------ the specification
\* The session lifecycle: load, optimize, select, persist, reload.  The
\* operator drives it through the controls; every pending request may be
\* answered or fail at any time, in any order.  The sliders, the optimizer
\* select, the zone markers, the Refresh DB and the Download buttons are not
\* inputs of this Next: they write cells that no step of it reads otherwise
\* than to copy them into a request.
Next ==
    \/ Mount
    \/ \E ds \in DataSources : ChangeDataSource(ds)
    \/ ClickReload
    \/ \E i \in 1..Len(inflight), cityData \in FetchableCities : LoadCityOk(i, cityData)
    \/ \E i \in 1..Len(inflight) : LoadCityFail(i)
    \/ \E i \in 1..Len(inflight) : ListOk(i)
    \/ \E i \in 1..Len(inflight) : ListFail(i)
    \/ ClickRun
    \/ \E i \in Pending("optimize") : OptimizeOk(i, Optimizer(inflight[i].city))
    \/ \E i \in 1..Len(inflight) : OptimizeFail(i)
    \/ ClickApply
    \/ \E i \in Pending("select") : \E data \in SelectReplies(inflight[i]) : SelectOk(i, data)
    \/ \E i \in 1..Len(inflight) : SelectFail(i)
    \/ \E i \in 1..Len(inflight) : SaveOk(i)
    \/ \E i \in 1..Len(inflight) : SaveFail(i)
    \/ \E id \in StoredIds : SelectDbResult(id)
    \/ ClickLoadDb
    \/ \E i \in 1..Len(inflight), result \in SavedResults : LoadDbOk(i, result)
    \/ \E i \in 1..Len(inflight) : LoadDbFail(i)

\* ---------------------------------------------------------------- InfoPanel
\* The maximum_capacity of the zones shown in the info panel.
MaximumCapacities == {3, 20, 100, 133}

\* The zone prop, reduced to the fields the occupancy display reads.
InfoPanelZones ==
    {[current_capacity |-> c, maximum_capacity |-> m] :
        c \in 0..MaxCurrentCapacity, m \in MaximumCapacities}

\* (zone.current_capacity / zone.maximum_capacity * 100).toFixed(1): the
\* decimal with one digit after the point that is nearest to the quotient,
\* the larger one of two equally near. The value is the number of tenths,
\* "85.0" being 850; where the string is compared or passed to Math.min it
\* is converted to this number.
occupancyPercent(zone) ==
    (2000 * zone.current_capacity + zone.maximum_capacity)
        \div (2 * zone.maximum_capacity)

\* The colour of the occupancy text and of the bar.
occupancyColor(percent) ==
    IF percent >= 850 THEN "#e74c3c"
    ELSE IF percent >= 650 THEN "#f39c12"
    ELSE IF percent >= 300 THEN "#27ae60"
    ELSE "#9b59b6"

\* Mutant: the width of the bar without Math.min.
OccupancyFillWidthUncapped(percent) == percent

\* width: `${Math.min(100, occupancyPercent)}%`, in tenths of a percent.
OccupancyFillWidth(percent) == IF percent > 1000 THEN 1000 ELSE percent

\* InfoPanel({ zone, onClose }) rendered: null without a zone, else the
\* occupancy text, its colour and the fill of the bar.
InfoPanel(zone) ==
    /\ infoPanel' =
          IF zone = Null THEN Null
          ELSE [zone |-> zone,
                text |-> occupancyPercent(zone),
                color |-> occupancyColor(occupancyPercent(zone)),
                width |-> OccupancyFillWidth(occupancyPercent(zone)),
                backgroundColor |-> occupancyColor(occupancyPercent(zone))]
    /\ UNCHANGED <<panel, settingsChanges, mounted, city, loading, error,
                   weights, selectedZoneId, optimizationResponse,
                   optimizerType, dataSource, optimizing, applyingWeights,
                   settings, dbResults, selectedDbResultId, loadingDbResults,
                   inflight>>

\* The session driven by the operator through the rendered controls.
Spec == Init /\ [][Next]_vars

\* The same session, where applyOptimizationWeights and loadDbResult are also
\* called by callers that the buttons do not guard.
NextHandlers ==
    \/ Next
    \/ CallApplyWithoutResults
    \/ CallLoadDbWithoutSelection

SpecHandlers == Init /\ [][NextHandlers]_vars

\* The session of an operator who restores saved results and re-weights
\* them, the store answering with any of the results it can hold.
NextStore ==
    \/ Mount
    \/ \E i \in 1..Len(inflight), cityData \in FetchableCities : LoadCityOk(i, cityData)
    \/ \E i \in 1..Len(inflight) : LoadCityFail(i)
    \/ \E i \in 1..Len(inflight) : ListOk(i)
    \/ \E i \in 1..Len(inflight) : ListFail(i)
    \/ \E id \in StoredIds : SelectDbResult(id)
    \/ ClickLoadDb
    \/ \E i \in 1..Len(inflight), result \in SavedResultsAnyShape : LoadDbOk(i, result)
    \/ \E i \in 1..Len(inflight) : LoadDbFail(i)
    \/ ClickApply
    \/ \E i \in Pending("select") : \E data \in SelectReplies(inflight[i]) : SelectOk(i, data)
    \/ \E i \in 1..Len(inflight) : SelectFail(i)
    \/ \E i \in 1..Len(inflight) : SaveOk(i)
    \/ \E i \in 1..Len(inflight) : SaveFail(i)

SpecStore == Init /\ [][NextStore]_vars

\* The session of an operator who exports responses and imports files:
\* handleDownloadResults and handleLoadResults with the run and the
\* selection, without the store's saved results.
NextImport ==
    \/ Mount
    \/ \E i \in 1..Len(inflight), cityData \in FetchableCities : LoadCityOk(i, cityData)
    \/ \E i \in 1..Len(inflight) : LoadCityFail(i)
    \/ \E i \in 1..Len(inflight) : ListOk(i)
    \/ \E i \in 1..Len(inflight) : ListFail(i)
    \/ ClickRun
    \/ \E i \in Pending("optimize") : OptimizeOk(i, Optimizer(inflight[i].city))
    \/ \E i \in 1..Len(inflight) : OptimizeFail(i)
    \/ ClickDownload
    \/ \E doc \in Files : handleLoadResults(doc)
    \/ \E i \in 1..Len(inflight) : ReaderOnLoad(i)
    \/ ClickApply
    \/ \E i \in Pending("select") : \E data \in SelectReplies(inflight[i]) : SelectOk(i, data)
    \/ \E i \in 1..Len(inflight) : SelectFail(i)
    \/ \E i \in 1..Len(inflight) : SaveOk(i)
    \/ \E i \in 1..Len(inflight) : SaveFail(i)

SpecImport == Init /\ [][NextImport]_vars

\* The session of an operator who runs the optimizer and then re-weights:
\* the sliders are moved between selections, and the response is exported.
NextReweigh ==
    \/ Mount
    \/ \E i \in 1..Len(inflight), cityData \in FetchableCities : LoadCityOk(i, cityData)
    \/ \E i \in 1..Len(inflight) : LoadCityFail(i)
    \/ \E i \in 1..Len(inflight) : ListOk(i)
    \/ \E i \in 1..Len(inflight) : ListFail(i)
    \/ ClickRun
    \/ \E i \in Pending("optimize") : OptimizeOk(i, Optimizer(inflight[i].city))
    \/ \E i \in 1..Len(inflight) : OptimizeFail(i)
    \/ \E key \in SliderKeys, value \in SliderValues : MoveSlider(key, value)
    \/ ClickApply
    \/ \E i \in Pending("select") : \E data \in SelectReplies(inflight[i]) : SelectOk(i, data)
    \/ \E i \in 1..Len(inflight) : SelectFail(i)
    \/ \E i \in 1..Len(inflight) : SaveOk(i)
    \/ \E i \in 1..Len(inflight) : SaveFail(i)
    \/ ClickDownload

SpecReweigh == Init /\ [][NextReweigh]_vars

\* The session of an operator who switches the data source and reloads,
\* also while a LoadCity is pending.
NextSwitch ==
    \/ Mount
    \/ \E ds \in DataSources : ChangeDataSource(ds)
    \/ \E ds \in DataSources : ChangeDataSourceDuringLoad(ds)
    \/ ClickReload
    \/ \E i \in 1..Len(inflight), cityData \in FetchableCities : LoadCityOk(i, cityData)
    \/ \E i \in 1..Len(inflight) : LoadCityFail(i)
    \/ \E i \in 1..Len(inflight) : ListOk(i)
    \/ \E i \in 1..Len(inflight) : ListFail(i)

SpecSwitch == Init /\ [][NextSwitch]_vars

\* The session of an operator who changes settings in the panel, imports
\* configurations and picks locations; a render that is due happens.
NextSettings ==
    \/ Mount
    \/ \E i \in 1..Len(inflight), cityData \in FetchableCities : LoadCityOk(i, cityData)
    \/ \E i \in 1..Len(inflight) : LoadCityFail(i)
    \/ \E i \in 1..Len(inflight) : ListOk(i)
    \/ \E i \in 1..Len(inflight) : ListFail(i)
    \/ \E name \in TypedCityNames : updateSetting("common", "cityName", name)
    \/ \E doc \in ConfigFiles : importConfig(doc)
    \/ \E i \in 1..Len(inflight) : ConfigReaderOnLoad(i)
    \/ \E point \in PickedLocations : handleLocationPicked(point.center_lat, point.center_lon)
    \/ \E i \in 1..Len(inflight), city_name \in GeocodedNames : GeocodeOk(i, city_name)
    \/ \E i \in 1..Len(inflight) : GeocodeFail(i)
    \/ RenderSettings

SpecSettings == Init /\ [][NextSettings]_vars /\ WF_vars(RenderSettings)

\* The session of an operator who changes every input of the menu: the data
\* source, the weights, the optimizer type and the settings.
NextInputs ==
    \/ Mount
    \/ \E ds \in DataSources : ChangeDataSource(ds)
    \/ \E i \in 1..Len(inflight), cityData \in FetchableCities : LoadCityOk(i, cityData)
    \/ \E i \in 1..Len(inflight) : LoadCityFail(i)
    \/ \E i \in 1..Len(inflight) : ListOk(i)
    \/ \E i \in 1..Len(inflight) : ListFail(i)
    \/ \E key \in SliderKeys, value \in SliderValues : MoveSlider(key, value)
    \/ \E t \in OptimizerTypes : ChangeOptimizerType(t)
    \/ \E name \in TypedCityNames : updateSetting("common", "cityName", name)

SpecInputs == Init /\ [][NextInputs]_vars

\* The session of an operator who moves a slider, changes the optimizer
\* type and selects a zone, and then restores a saved result over them.
NextRestore ==
    \/ Mount
    \/ \E i \in 1..Len(inflight), cityData \in FetchableCities : LoadCityOk(i, cityData)
    \/ \E i \in 1..Len(inflight) : LoadCityFail(i)
    \/ \E i \in 1..Len(inflight) : ListOk(i)
    \/ \E i \in 1..Len(inflight) : ListFail(i)
    \/ \E key \in SliderKeys, value \in SliderValues : MoveSlider(key, value)
    \/ \E t \in OptimizerTypes : ChangeOptimizerType(t)
    \/ \E id \in IdsOf(ZonesOrNone(city)) \cup {NoZone} : SelectZone(id)
    \/ \E id \in StoredIds : SelectDbResult(id)
    \/ ClickLoadDb
    \/ \E i \in 1..Len(inflight), result \in SavedResultsAnyShape : LoadDbOk(i, result)
    \/ \E i \in 1..Len(inflight) : LoadDbFail(i)

SpecRestore == Init /\ [][NextRestore]_vars

\* The info panel rendered for one zone after another, and closed.
NextInfoPanel ==
    \/ \E zone \in InfoPanelZones : InfoPanel(zone)
    \/ InfoPanel(Null)

SpecInfoPanel == Init /\ [][NextInfoPanel]_vars

\* The awaits of the handlers resolving or rejecting, by request kind.
LoadCityAnswered ==
    \/ \E i \in 1..Len(inflight), cityData \in FetchableCities : LoadCityOk(i, cityData)
    \/ \E i \in 1..Len(inflight) : LoadCityFail(i)
ListAnswered ==
    \/ \E i \in 1..Len(inflight) : ListOk(i)
    \/ \E i \in 1..Len(inflight) : ListFail(i)
OptimizeAnswered ==
    \/ \E i \in Pending("optimize") : OptimizeOk(i, Optimizer(inflight[i].city))
    \/ \E i \in 1..Len(inflight) : OptimizeFail(i)
SelectAnswered ==
    \/ \E i \in Pending("select") : \E data \in SelectReplies(inflight[i]) : SelectOk(i, data)
    \/ \E i \in 1..Len(inflight) : SelectFail(i)
SaveAnswered ==
    \/ \E i \in 1..Len(inflight) : SaveOk(i)
    \/ \E i \in 1..Len(inflight) : SaveFail(i)
LoadDbAnswered ==
    \/ \E i \in 1..Len(inflight), result \in SavedResults : LoadDbOk(i, result)
    \/ \E i \in 1..Len(inflight) : LoadDbFail(i)

\* The session in which the mount effect runs and every request is
\* eventually answered or fails.
SpecLive ==
    /\ Init
    /\ [][NextHandlers]_vars
    /\ WF_vars(Mount)
    /\ WF_vars(LoadCityAnswered)
    /\ WF_vars(ListAnswered)
    /\ WF_vars(OptimizeAnswered)
    /\ WF_vars(SelectAnswered)
    /\ WF_vars(SaveAnswered)
    /\ WF_vars(LoadDbAnswered)

\* ================================================================ claims
\* The kinds of request of the five operations.
OperationKinds == {"load_city", "optimize", "select", "save", "get_result"}

\* The zone carries a value in the field.
Carries(zone, f) == Get(zone, f) # Undefined

\* A zone result of the scenario for the id, if there is one.
ResultsFor(selectedSolution, id) ==
    {selectedSolution.zones[k] : k \in {j \in 1..Len(selectedSolution.zones) :
                                          selectedSolution.zones[j].id = id}}

\* after is before with the scenario joined in by id.
IdJoined(before, after, selectedSolution) ==
    /\ Len(after.parking_zones) = Len(before.parking_zones)
    /\ \A k \in 1..Len(before.parking_zones) :
          LET zone == before.parking_zones[k]
              merged == after.parking_zones[k]
          IN  IF ResultsFor(selectedSolution, zone.id) # {}
              THEN \E r \in ResultsFor(selectedSolution, zone.id) :
                      /\ merged.id = zone.id
                      /\ Get(merged, "new_fee") = r.new_fee
                      /\ Get(merged, "predicted_occupancy") = r.predicted_occupancy
              ELSE merged = zone

\* C1: when the selection of an ApplyWeights is answered, every zone of the
\* city whose id is among the selected scenario's zone results carries that
\* result's new_fee and predicted_occupancy, and every other zone is the
\* zone it was before (no new_fee added to it).
C1_MergeIsIdJoin ==
    [][\A i \in Pending("select") : \A data \in SelectReplies(inflight[i]) :
          (SelectOk(i, data) /\ Truthy(city)) =>
              IdJoined(city, city', data.scenario)]_vars

\* A scenario that omits a zone has been merged: one zone carries a new_fee
\* and another zone of the same city carries none.
C1_Witness ==
    /\ Truthy(city)
    /\ \E k \in 1..Len(city.parking_zones) : Carries(city.parking_zones[k], "new_fee")
    /\ \E k \in 1..Len(city.parking_zones) : ~Carries(city.parking_zones[k], "new_fee")

\* The start of i's handler, or the failure of request i, for the four
\* operations that load, optimize, select and restore.
FailureOf(i) ==
    LoadCityFail(i) \/ OptimizeFail(i) \/ SelectFail(i) \/ LoadDbFail(i)

StartOfCall ==
    \/ Mount
    \/ \E ds \in DataSources : ChangeDataSource(ds)
    \/ ClickReload
    \/ ClickRun
    \/ ClickApply
    \/ ClickLoadDb

\* C2: neither the start of LoadCity, RunOptimization, ApplyWeights or
\* LoadSavedResult nor the failure of its network call changes the city or
\* the held response, and after the failure an error is reported.
C2_FailureKeepsState ==
    [][/\ StartOfCall => (city' = city /\ optimizationResponse' = optimizationResponse)
       /\ \A i \in 1..Len(inflight) :
             FailureOf(i) => /\ city' = city
                             /\ optimizationResponse' = optimizationResponse
                             /\ error' # NoError]_vars

\* A load failed after a city was loaded and a response was received.
C2_Witness ==
    /\ error = ErrConnect
    /\ Truthy(city)
    /\ Truthy(optimizationResponse)

\* C3: a successful LoadCity stores the fetched city and clears the held
\* response.
C3_LoadCityClearsResponse ==
    [][\A i \in Pending("load_city") : \A cityData \in FetchableCities :
          LoadCityOk(i, cityData) =>
              (city' = cityData /\ optimizationResponse' = Null)]_vars

\* C4: RunOptimization with no city or with a city of zero zones sends no
\* request, leaves the optimizing flag false, reports an error and leaves
\* the city and the held response as they were.
C4_RunRejectedWithoutZones ==
    [][(ClickRun /\ Len(ZonesOrNone(city)) = 0) =>
          /\ inflight' = inflight
          /\ optimizing' = FALSE
          /\ error' # NoError
          /\ city' = city
          /\ optimizationResponse' = optimizationResponse]_vars

\* A run was rejected for a loaded city without zones.
C4_Witness ==
    /\ error = ErrNoZones
    /\ city = CityEmpty
    /\ ~optimizing
    /\ Pending("optimize") = {}

\* C5: ApplyWeights with no held response sends no request, does not set
\* the applying-weights flag, reports an error and leaves the city as it
\* was.
C5_ApplyRejectedWithoutResponse ==
    [][CallApplyWithoutResults =>
          /\ inflight' = inflight
          /\ applyingWeights' = applyingWeights
          /\ error' = ErrNoResults
          /\ city' = city]_vars

\* An apply was rejected while nothing was being applied.
C5_Witness ==
    /\ error = ErrNoResults
    /\ ~applyingWeights
    /\ Pending("select") = {}

\* C6: at most one request of each operation kind is in flight.
C6_OneRequestPerKind ==
    \A kind \in OperationKinds : Cardinality(Pending(kind)) <= 1

\* C7: while a RunOptimization is pending the optimizing flag is set and no
\* second one is pending, and the response stored when it is answered is the
\* optimizer's answer to the city that the pending call submitted.
C7_SingleRunStoresItsResult ==
    /\ [](Pending("optimize") # {} =>
             optimizing /\ Cardinality(Pending("optimize")) = 1)
    /\ [][\A i \in Pending("optimize") :
             OptimizeOk(i, Optimizer(inflight[i].city)) =>
                 optimizationResponse' = Optimizer(inflight[i].city)]_vars

\* A run is pending while an earlier response is held.
C7_Witness ==
    /\ optimizing
    /\ Pending("optimize") # {}
    /\ Truthy(optimizationResponse)

\* C8: while a LoadSavedResult is pending neither RunOptimization nor
\* ApplyWeights is in progress.
C8_LoadExcludesRunAndApply ==
    Pending("get_result") # {} => (~optimizing /\ ~applyingWeights)

\* C9: the optimizing flag and the applying-weights flag are never true
\* together.
C9_OnePhaseAtATime == ~(optimizing /\ applyingWeights)

\* The snapshot entries and the response of a saved result that LoadDbOk
\* restores with its response.
CarriesResponse(result) ==
    /\ GetSeq(result, "map_snapshot") # <<>>
    /\ Truthy(GetObj(result, "optimization_response"))

\* C10: the city rebuilt from a saved result that carries an
\* optimization_response has no zone with a new_fee, a predicted_occupancy
\* or a predicted_revenue, and that response becomes the held response.
C10_FreshCityFromSavedResponse ==
    [][\A i \in Pending("get_result") : \A result \in SavedResults :
          (LoadDbOk(i, result) /\ CarriesResponse(result)) =>
              /\ optimizationResponse' = result.optimization_response
              /\ Len(city'.parking_zones) = Len(result.map_snapshot)
              /\ \A k \in 1..Len(city'.parking_zones) :
                    /\ city'.parking_zones[k].id = result.map_snapshot[k].id
                    /\ ~Carries(city'.parking_zones[k], "new_fee")
                    /\ ~Carries(city'.parking_zones[k], "predicted_occupancy")
                    /\ ~Carries(city'.parking_zones[k], "predicted_revenue")]_vars

\* A saved result whose snapshot held new fees was restored with its
\* response: the rebuilt zones carry none.
C10_Witness ==
    /\ Truthy(city)
    /\ Truthy(optimizationResponse)
    /\ Len(city.parking_zones) > 0
    /\ \A k \in 1..Len(city.parking_zones) :
          /\ "occupancy" \in DOMAIN city.parking_zones[k]
          /\ ~Carries(city.parking_zones[k], "new_fee")

\* A saved result that LoadDbOk restores as a final solution: it has a
\* snapshot and no optimization_response.
IsFinalOnly(result) ==
    /\ GetSeq(result, "map_snapshot") # <<>>
    /\ ~Truthy(GetObj(result, "optimization_response"))

\* The three fields that a decision writes.
DecisionFields == {"new_fee", "predicted_occupancy", "predicted_revenue"}

\* C11: the city rebuilt from a saved result without optimization_response
\* has, for every snapshot entry, a zone of that id carrying exactly the
\* new_fee, predicted_occupancy and predicted_revenue of the entry; the held
\* response is cleared, so the Apply Weights precondition fails afterwards.
C11_FinalCityKeepsDecision ==
    [][\A i \in Pending("get_result") : \A result \in SavedResults :
          (LoadDbOk(i, result) /\ IsFinalOnly(result)) =>
              /\ optimizationResponse' = Null
              /\ ApplyControlDisabled'
              /\ Len(city'.parking_zones) = Len(result.map_snapshot)
              /\ \A k \in 1..Len(result.map_snapshot) :
                    /\ city'.parking_zones[k].id = result.map_snapshot[k].id
                    /\ \A f \in DecisionFields :
                          Get(city'.parking_zones[k], f) = Get(result.map_snapshot[k], f)]_vars

\* A final solution was restored: no response is held and the rebuilt zones
\* carry the fee and the predicted revenue of the snapshot.
C11_Witness ==
    /\ Truthy(city)
    /\ optimizationResponse = Null
    /\ Len(city.parking_zones) > 0
    /\ \A k \in 1..Len(city.parking_zones) :
          /\ "occupancy" \in DOMAIN city.parking_zones[k]
          /\ Carries(city.parking_zones[k], "new_fee")
          /\ Carries(city.parking_zones[k], "predicted_revenue")

\* The value loadDbResult documents for a numeric field that a snapshot
\* entry does not carry.
DocumentedDefault(f) ==
    CASE f = "elasticity" -> 0 - 4
      [] f = "short_term_share" -> 5
      [] f = "min_fee" -> 5
      [] f = "max_fee" -> 50
      [] OTHER -> 0

\* zone is the entry rebuilt with the documented defaults.
RebuiltWithDefaults(zone, entry) ==
    /\ zone.id = entry.id
    /\ \A f \in {"current_fee", "maximum_capacity", "current_capacity",
                  "elasticity", "short_term_share", "min_fee", "max_fee"} :
          Get(zone, f) = Coalesce(Get(entry, f), DocumentedDefault(f))

\* C12: every saved result that the store answers with is restored: the
\* load reports no error and the city becomes the one rebuilt from the
\* result, each field an entry lacks taking its documented default.
C12_EverySavedResultLoads ==
    [][\A i \in Pending("get_result") : \A result \in SavedResultsAnyShape :
          LoadDbOk(i, result) =>
              /\ error' = error
              /\ Truthy(city')
              /\ Len(city'.parking_zones) = Len(GetSeq(result, "map_snapshot"))
              /\ \A k \in 1..Len(GetSeq(result, "map_snapshot")) :
                    RebuiltWithDefaults(city'.parking_zones[k], result.map_snapshot[k])]_vars

\* The four dimensions of a weights value.
WeightKeys == {"revenue", "occupancy", "drop", "fairness"}

\* C20: the weights of the session carry the four dimensions and no other
\* key: a value with another key is refused where it enters the session.
C20_WeightsHaveFourKeys == DOMAIN weights = WeightKeys

\* The city is as a successful ApplyWeights that selected the scenario
\* leaves it: every zone that the scenario lists carries the fee and the
\* occupancy of its result.
CarriesSelection(c, selectedSolution) ==
    \A k \in 1..Len(c.parking_zones) :
        \A r \in ResultsFor(selectedSolution, c.parking_zones[k].id) :
            /\ Get(c.parking_zones[k], "new_fee") = r.new_fee
            /\ Get(c.parking_zones[k], "predicted_occupancy") = r.predicted_occupancy

\* C13: a selection function that is deterministic answers the second of
\* two successive ApplyWeights on the same response and weights with the
\* scenario the first one merged; merging it again leaves the new_fee and
\* the predicted_occupancy of every zone as the first call left them.
C13_ApplyIsIdempotent ==
    [][\A i \in Pending("select") : \A data \in SelectReplies(inflight[i]) :
          (SelectOk(i, data) /\ Truthy(city) /\ CarriesSelection(city, data.scenario)) =>
              /\ Len(city'.parking_zones) = Len(city.parking_zones)
              /\ \A k \in 1..Len(city.parking_zones) :
                    /\ Get(city'.parking_zones[k], "new_fee") =
                          Get(city.parking_zones[k], "new_fee")
                    /\ Get(city'.parking_zones[k], "predicted_occupancy") =
                          Get(city.parking_zones[k], "predicted_occupancy")]_vars

\* Two ApplyWeights on the same response and weights were both answered
\* with the same scenario (their two POSTs are pending), and the city
\* carries that scenario.
C13_Witness ==
    /\ Truthy(city)
    /\ \E i, j \in Pending("save") :
          /\ i < j
          /\ inflight[i].origin = "apply"
          /\ inflight[j].body = inflight[i].body
          /\ Truthy(inflight[i].body.optimization_response)
          /\ \E n \in 1..Len(inflight[i].body.optimization_response.scenarios) :
                LET scenario == inflight[i].body.optimization_response.scenarios[n]
                IN  /\ scenario.scenario_id = inflight[i].body.best_scenario.scenario_id
                    /\ Len(scenario.zones) > 0
                    /\ Len(city.parking_zones) > 0
                    /\ CarriesSelection(city, scenario)

\* The ids among the scenario's zone results that no zone of the city has.
UnknownIds(c, selectedSolution) ==
    IdsOf(selectedSolution.zones) \ IdsOf(ZonesOrNone(c))

\* C14: when the selected scenario lists an id that is not a zone id of the
\* city, the ApplyWeights reports no error, the city keeps its set of zone
\* ids, and the snapshot that the call persists has no entry for that id.
C14_UnknownIdsLeaveNoTrace ==
    [][\A i \in Pending("select") : \A data \in SelectReplies(inflight[i]) :
          (/\ SelectOk(i, data)
           /\ Truthy(city)
           /\ UnknownIds(city, data.scenario) # {}) =>
              /\ error' = error
              /\ IdsOf(ZonesOrNone(city')) = IdsOf(ZonesOrNone(city))
              /\ LET posted == inflight'[Len(inflight')]
                 IN  posted.kind = "save" =>
                        IdsOf(posted.body.map_snapshot)
                            \cap UnknownIds(city, data.scenario) = {}]_vars

\* The results POSTs in flight.
Posts(reqs) == {j \in 1..Len(reqs) : reqs[j].kind = "save"}

C16_PersistFailureKeepsDecision ==
    [][\A i \in Posts(inflight) :
          (SaveFail(i) /\ inflight[i].origin = "apply") =>
              /\ city' = city
              /\ optimizationResponse' = optimizationResponse
              /\ applyingWeights' = FALSE]_vars

\* The state that the failed POST of an ApplyWeights leaves: the fees are
\* merged, the response is held, the flag is false, no request is pending
\* and no error is reported.
C16_Witness ==
    /\ Truthy(city)
    /\ Truthy(optimizationResponse)
    /\ \E k \in 1..Len(city.parking_zones) : Carries(city.parking_zones[k], "new_fee")
    /\ ~applyingWeights
    /\ ~loadingDbResults
    /\ inflight = <<>>
    /\ error = NoError

\* C17: importing the document that the export of a response wrote leaves
\* a held response whose scenarios are those of the exported response: the
\* same scenarios with the same ids, scores and zone results.
C17_ExportImportRoundTrip ==
    [][\A i \in Pending("read_file") : \A r \in ExportedResponses :
          (ReaderOnLoad(i) /\ inflight[i].doc = DownloadedDocument(r)) =>
              /\ Truthy(optimizationResponse')
              /\ GetSeq(optimizationResponse', "scenarios") = r.scenarios]_vars

\* An exported document was imported into a session that has no city: the
\* held response has the exported scenarios, and only an import can have
\* stored it.
C17_Witness ==
    /\ city = Null
    /\ Truthy(optimizationResponse)
    /\ \E r \in ExportedResponses :
          /\ Len(r.scenarios) > 0
          /\ GetSeq(optimizationResponse, "scenarios") = r.scenarios

\* The text parses to an object that has scenarios.
ParsesAsResponse(doc) ==
    LET results == JSONparse(doc)
    IN  /\ results.ok
        /\ Truthy(results.value)
        /\ "scenarios" \in DOMAIN results.value

\* C18: the import of a document that does not parse as an
\* OptimizationResponse leaves the held response and the city as they were.
C18_MalformedImportKeepsState ==
    [][\A i \in Pending("read_file") :
          (ReaderOnLoad(i) /\ ~ParsesAsResponse(inflight[i].doc)) =>
              /\ optimizationResponse' = optimizationResponse
              /\ city' = city]_vars

\* C19: the import of a document that does not parse as an
\* OptimizationResponse sets the reported error.
C19_MalformedImportIsReported ==
    [][\A i \in Pending("read_file") :
          (ReaderOnLoad(i) /\ ~ParsesAsResponse(inflight[i].doc)) =>
              error' # NoError]_vars

\* C21: whenever the city has at least one zone the export can be invoked,
\* with or without a held response, and invoking it issues a results POST
\* whose snapshot has one entry for every zone of the city.
C21_ExportAvailableWithCity ==
    /\ []((mounted /\ Len(ZonesOrNone(city)) > 0) => ~DownloadControlDisabled)
    /\ [][(ClickDownload /\ Len(ZonesOrNone(city)) > 0) =>
             /\ Cardinality(Posts(inflight')) = Cardinality(Posts(inflight)) + 1
             /\ LET posted == inflight'[Len(inflight')]
                IN  /\ posted.kind = "save"
                    /\ Len(posted.body.map_snapshot) = Len(city.parking_zones)
                    /\ \A k \in 1..Len(city.parking_zones) :
                          posted.body.map_snapshot[k].id = city.parking_zones[k].id]_vars

\* An error is reported and no request is pending.
ReportedAndIdle == mounted /\ error # NoError /\ inflight = <<>>

\* C22: with an error reported and nothing in flight every operation can be
\* invoked again (its control is enabled when its precondition is met), and
\* the start of a LoadCity, of a RunOptimization on a city with zones, of
\* an ApplyWeights on a held response and of a LoadSavedResult clears the
\* reported error.
C22_ErrorIsNotTerminal ==
    /\ [](ReportedAndIdle =>
             /\ ~LoadControlDisabled
             /\ ~RunControlDisabled
             /\ Truthy(optimizationResponse) => ~ApplyControlDisabled
             /\ selectedDbResultId # "" => ~LoadDbControlDisabled)
    /\ [][/\ (ClickReload \/ \E ds \in DataSources : ChangeDataSource(ds)) =>
                 error' = NoError
          /\ (ClickRun /\ ~NoZonesLoaded(city)) => error' = NoError
          /\ ClickApply => error' = NoError
          /\ ClickLoadDb => error' = NoError]_vars

\* A failed operation has ended: an error is reported, nothing is pending,
\* and a city, a response and a chosen saved result are there to retry
\* each operation on.
C22_Witness ==
    /\ ReportedAndIdle
    /\ Len(ZonesOrNone(city)) > 0
    /\ Truthy(optimizationResponse)
    /\ selectedDbResultId # ""

\* A step of ApplyWeights (its start, its answered or failed selection, its
\* answered or failed POST) or of the export.
ApplyOrPersistStep ==
    \/ ClickApply
    \/ \E i \in Pending("select") : \E data \in SelectReplies(inflight[i]) : SelectOk(i, data)
    \/ \E i \in 1..Len(inflight) : SelectFail(i)
    \/ \E i \in 1..Len(inflight) : SaveOk(i)
    \/ \E i \in 1..Len(inflight) : SaveFail(i)
    \/ ClickDownload

\* The optimize requests among the requests.
OptimizeRequests(reqs) == {j \in 1..Len(reqs) : reqs[j].kind = "optimize"}

\* C23: no step of an ApplyWeights, answered or failed, and no export
\* changes the held response or issues an optimize request, and the
\* selection an ApplyWeights asks for is over all scenarios of the held
\* response under the weights of the moment.
C23_ResponseIsImmutable ==
    [][/\ ApplyOrPersistStep =>
             /\ optimizationResponse' = optimizationResponse
             /\ Cardinality(OptimizeRequests(inflight')) =
                    Cardinality(OptimizeRequests(inflight))
       /\ ClickApply =>
             LET asked == inflight'[Len(inflight')]
             IN  /\ asked.kind = "select"
                 /\ asked.scenarios = optimizationResponse.scenarios
                 /\ asked.weights = WeightsDict(weights)]_vars

\* Two ApplyWeights with different weights have followed one
\* RunOptimization: their POSTs are pending with the same response, the one
\* still held, and no optimize request is pending.
C23_Witness ==
    /\ Len(inflight) = 2
    /\ inflight[1].kind = "save" /\ inflight[1].origin = "apply"
    /\ inflight[2].kind = "save" /\ inflight[2].origin = "apply"
    /\ inflight[1].body.parameters.weights # inflight[2].body.parameters.weights
    /\ inflight[1].body.optimization_response = optimizationResponse
    /\ inflight[2].body.optimization_response = optimizationResponse
    /\ Len(optimizationResponse.scenarios) = 2

\* The zones of both cities agree on every field outside the decision
\* fields, zone by zone.
SameOutsideDecision(before, after) ==
    /\ Len(ZonesOrNone(after)) = Len(ZonesOrNone(before))
    /\ \A k \in 1..Len(ZonesOrNone(before)) :
          LET old == before.parking_zones[k]
              new == after.parking_zones[k]
          IN  /\ DOMAIN new \ DecisionFields = DOMAIN old \ DecisionFields
              /\ \A f \in DOMAIN old \ DecisionFields : new[f] = old[f]

\* C25: the answered selection of an ApplyWeights leaves every field of
\* every zone of the city other than new_fee, predicted_occupancy and
\* predicted_revenue as it was (id, name, position, current_fee,
\* maximum_capacity and current_capacity among them), and no step of a
\* RunOptimization changes the city.
C25_OnlyDecisionFieldsChange ==
    [][/\ \A i \in Pending("select") : \A data \in SelectReplies(inflight[i]) :
             SelectOk(i, data) => SameOutsideDecision(city, city')
       /\ (\/ ClickRun
           \/ \E i \in Pending("optimize") : OptimizeOk(i, Optimizer(inflight[i].city))
           \/ \E i \in 1..Len(inflight) : OptimizeFail(i)) => city' = city]_vars

\* A selection has been merged into city A: its second zone carries the
\* selected fee, which differs from its fee in force.
C25_Witness ==
    /\ Len(ZonesOrNone(city)) = 2
    /\ "new_fee" \in DOMAIN city.parking_zones[2]
    /\ city.parking_zones[2].new_fee # city.parking_zones[2].current_fee
    /\ city.parking_zones[2].current_fee = CityA.parking_zones[2].current_fee
    /\ applyingWeights

\* C24: the held response is absent or has at least one scenario.
C24_HeldResponseHasScenarios ==
    optimizationResponse = Null \/ Len(GetSeq(optimizationResponse, "scenarios")) > 0

\* C26: every zone id in a scenario of the held response is the id of a zone
\* of the current city.
C26_ScenarioIdsAreCityIds ==
    Truthy(optimizationResponse) =>
        \A n \in 1..Len(GetSeq(optimizationResponse, "scenarios")) :
            LET zones == optimizationResponse.scenarios[n].zones
            IN  \A k \in 1..Len(zones) :
                    \E j \in 1..Len(ZonesOrNone(city)) :
                        city.parking_zones[j].id = zones[k].id

\* C27: while the loading flag is set the reload control and the run control
\* are both disabled, so no reload and no RunOptimization is started from
\* the controls in such a state; the start of a LoadCity or of a
\* LoadSavedResult sets the flag.
C27_LoadingDisablesLoadAndRun ==
    /\ [](loading => LoadControlDisabled /\ RunControlDisabled)
    /\ [][/\ (ClickReload \/ ClickRun) => ~loading
          /\ (ClickReload \/ ClickLoadDb) => loading']_vars

\* A load is pending with its flag set over a city that has zones, and no
\* run is in progress: only the loading flag keeps the run control disabled.
C27_Witness ==
    /\ mounted
    /\ loading
    /\ ~optimizing
    /\ Len(ZonesOrNone(city)) > 0
    /\ Pending("load_city") \cup Pending("get_result") # {}

\* C28: when every request is eventually answered or fails, a set loading
\* flag, optimizing flag or applying-weights flag is eventually reset, and
\* once the mount effect has run a state with no request outstanding has
\* all three flags false.
C28_OperationsLeaveInProgress ==
    /\ []((mounted /\ inflight = <<>>) => (~loading /\ ~optimizing /\ ~applyingWeights))
    /\ (loading ~> ~loading)
    /\ (optimizing ~> ~optimizing)
    /\ (applyingWeights ~> ~applyingWeights)

\* Operations have ended in failure or rejection and nothing is
\* outstanding: an error is reported and the three flags are false.
C28_Witness ==
    /\ mounted
    /\ inflight = <<>>
    /\ error # NoError
    /\ Truthy(optimizationResponse)
    /\ ~loading /\ ~optimizing /\ ~applyingWeights

\* The LoadCity and LoadSavedResult requests in flight.
LoadsInFlight == Pending("load_city") \cup Pending("get_result")

\* C29: once the mount effect has run, the loading flag is true exactly
\* when a LoadCity or a LoadSavedResult request is in flight.
C29_LoadingReflectsLoads ==
    mounted => (loading <=> LoadsInFlight # {})

\* C30: the answer to a LoadCity that was requested for a data source other
\* than the current one, arriving when no error is reported and no LoadCity
\* for the current data source is pending any more (the LoadCity requested
\* last has been answered), does not replace the city.
C30_StaleLoadNeverOverwrites ==
    [][\A i \in Pending("load_city") : \A cityData \in FetchableCities :
          (/\ LoadCityOk(i, cityData)
           /\ error = NoError
           /\ inflight[i].data_source # dataSource
           /\ \A j \in Pending("load_city") : inflight[j].data_source # dataSource)
          => city' = city]_vars

\* The ids of the zones.
ZoneIds(zones) == {zones[k].id : k \in 1..Len(zones)}

\* C31: the map_snapshot that an answered selection posts, for a city that
\* did not change while the selection was in flight, has one entry per zone
\* of that city: as many entries as the city has zones, with the same set of
\* ids, whichever zones the selected scenario lists.
C31_SnapshotCoversCity ==
    [][\A i \in Pending("select") : \A data \in SelectReplies(inflight[i]) :
          (/\ SelectOk(i, data)
           /\ Truthy(city)
           /\ inflight[i].closure.city = city) =>
              LET posted == inflight'[Len(inflight')]
              IN  /\ posted.kind = "save"
                  /\ Len(posted.body.map_snapshot) = Len(city.parking_zones)
                  /\ ZoneIds(posted.body.map_snapshot) = ZoneIds(city.parking_zones)]_vars

\* C32: after the answered selection of scenario S every zone of the city
\* that carries a new_fee or a predicted_occupancy is listed by S and
\* carries the values S gives it.
C32_CityReflectsSelectionAlone ==
    [][\A i \in Pending("select") : \A data \in SelectReplies(inflight[i]) :
          SelectOk(i, data) =>
              \A k \in 1..Len(ZonesOrNone(city')) :
                  LET zone == city'.parking_zones[k]
                  IN  (Carries(zone, "new_fee") \/ Carries(zone, "predicted_occupancy")) =>
                          \E r \in ResultsFor(data.scenario, zone.id) :
                              /\ Get(zone, "new_fee") = r.new_fee
                              /\ Get(zone, "predicted_occupancy") = r.predicted_occupancy]_vars

\* C33: the POST of an answered selection, for an ApplyWeights that was
\* called on a city holding every zone the selected scenario lists,
\* describes the city the scenario is merged into when the answer arrives:
\* its zone_count is the number of zones of that city and every snapshot
\* entry has the name, position, current_fee and capacities of the zone of
\* that id in that city.
C33_SnapshotDescribesMergedCity ==
    [][\A i \in Pending("select") : \A data \in SelectReplies(inflight[i]) :
          (/\ SelectOk(i, data)
           /\ Truthy(inflight[i].closure.city)
           /\ ZoneIds(data.scenario.zones) \subseteq
                  ZoneIds(ZonesOrNone(inflight[i].closure.city))) =>
              LET posted == inflight'[Len(inflight')]
                  zones == ZonesOrNone(city)
              IN  /\ posted.body.parameters.zone_count = Len(zones)
                  /\ \A n \in 1..Len(posted.body.map_snapshot) :
                        LET entry == posted.body.map_snapshot[n]
                        IN  \E k \in 1..Len(zones) :
                                /\ zones[k].id = entry.id
                                /\ zones[k].name = entry.name
                                /\ zones[k].position = entry.position
                                /\ zones[k].current_fee = entry.current_fee
                                /\ zones[k].maximum_capacity = entry.maximum_capacity
                                /\ zones[k].current_capacity = entry.current_capacity]_vars

\* C34: the answer to a LoadSavedResult whose result has no map_snapshot or
\* an empty one reports the missing snapshot, sets the loading flag false
\* and leaves the city, the held response, the weights, the optimizer type
\* and the settings as they were.
C34_EmptySnapshotChangesNothing ==
    [][\A i \in Pending("get_result") : \A result \in SavedResultsAnyShape :
          (LoadDbOk(i, result) /\ GetSeq(result, "map_snapshot") = <<>>) =>
              /\ error' = ErrNoSnapshot
              /\ ~loading'
              /\ city' = city
              /\ optimizationResponse' = optimizationResponse
              /\ weights' = weights
              /\ optimizerType' = optimizerType
              /\ settings' = settings]_vars

\* The missing snapshot was reported for a result fetched while no response
\* was held over a loaded city: the city is there, no response is held.
C34_Witness ==
    /\ error = ErrNoSnapshot
    /\ ~loading
    /\ Len(ZonesOrNone(city)) > 0
    /\ ~Truthy(optimizationResponse)
    /\ weights = InitialWeights

\* The panel and the controller hold the same settings and no render is due.
SettingsInSync == SettingsRendered /\ panel.settings = settings

\* C35: once the operator has made the last change of settings, the two
\* effects come to rest with the panel's settings equal to the
\* controller's settings.
C35_SettingsSyncConverges == <>[]SettingsInSync

\* C36: a LoadCity request is started exactly by the mount and by a change of
\* the data source, each of which starts one LoadCity for the data source now
\* selected and one refresh of the saved-results list; a change of the
\* weights, the optimizer type or the settings alone starts no request.
LoadCityStarted ==
    Cardinality(Pending("load_city")') = Cardinality(Pending("load_city")) + 1
C36_LoadCityOnMountAndSourceOnly ==
    [][ /\ LoadCityStarted <=> ((~mounted /\ mounted') \/ dataSource' # dataSource)
        /\ LoadCityStarted =>
              inflight' = inflight \o <<[kind |-> "load_city",
                                          data_source |-> dataSource'],
                                        [kind |-> "list"]>>
        /\ (\/ weights' # weights
            \/ optimizerType' # optimizerType
            \/ settings' # settings) => inflight' = inflight
      ]_vars
C36_Witness ==
    /\ dataSource # "osmnx"
    /\ weights # InitialWeights
    /\ optimizerType # "elasticity"
    /\ settings # InitialSettings
    /\ Pending("load_city") = {}
    /\ city # Null

\* The object next is the object prev overlaid with the object saved: every
\* key of saved carries the saved value, every other key its previous one.
IsOverlay(next, prev, saved) ==
    IF ~Truthy(saved) THEN next = prev
    ELSE /\ DOMAIN next = DOMAIN prev \cup DOMAIN saved
         /\ \A k \in DOMAIN next :
               next[k] = IF k \in DOMAIN saved THEN saved[k] ELSE prev[k]

\* C37: the answer to a LoadSavedResult whose result has a snapshot makes
\* the weights the previous weights overlaid with the saved ones, restores
\* the optimizer type and the settings when they were saved, clears the
\* selected zone, leaves the data source alone and starts no request: the
\* requests in flight are the previous ones without the answered one.
C37_RestoreStartsNoReload ==
    [][\A i \in Pending("get_result") : \A result \in SavedResultsAnyShape :
          (LoadDbOk(i, result) /\ GetSeq(result, "map_snapshot") # <<>>) =>
              LET parameters == GetObj(result, "parameters")
              IN  /\ IsOverlay(weights', weights, GetObj(parameters, "weights"))
                  /\ optimizerType' = IF GetStr(parameters, "optimizer_type") # ""
                                      THEN parameters.optimizer_type
                                      ELSE optimizerType
                  /\ IsOverlay(settings', settings, GetObj(parameters, "settings"))
                  /\ selectedZoneId' = NoZone
                  /\ dataSource' = dataSource
                  /\ city' = RestoredCity(result)
                  /\ inflight' = Remove(inflight, i)
                  /\ ~LoadCityStarted]_vars

\* A result with a fifth weight was restored while no LoadCity was pending:
\* the weights carry the fifth key beside the four of the sliders, no zone is
\* selected and the restored city is shown.
C37_Witness ==
    /\ city = RestoredCity(SavedExtraWeight)
    /\ DOMAIN weights = DOMAIN InitialWeights \cup {"emissions"}
    /\ weights.emissions = 20
    /\ optimizerType = "elasticity"
    /\ selectedZoneId = NoZone
    /\ Pending("load_city") = {}
    /\ ~loading

\* C38: the Apply Weights control and the Download control are enabled
\* exactly when a response is held, and a LoadSavedResult called with no
\* saved result selected sends no request and changes nothing.
C38_ControlsFollowResponse ==
    /\ []((~ApplyControlDisabled) <=> optimizationResponse # Null)
    /\ []((~DownloadControlDisabled) <=> optimizationResponse # Null)
    /\ [][CallLoadDbWithoutSelection => UNCHANGED vars]_vars

\* A response is held while weights are being applied and no saved result is
\* selected: both controls are enabled, and a call of loadDbResult returns
\* at its guard.
C38_Witness ==
    /\ optimizationResponse # Null
    /\ applyingWeights
    /\ ~ApplyControlDisabled
    /\ ~DownloadControlDisabled
    /\ selectedDbResultId = ""
    /\ ENABLED CallLoadDbWithoutSelection

\* The colour that the thresholds 85, 65 and 30 give a percentage that is
\* the quotient num / den of two naturals, den positive.
ColorOfRatio(num, den) ==
    IF num >= 85 * den THEN "#e74c3c"
    ELSE IF num >= 65 * den THEN "#f39c12"
    ELSE IF num >= 30 * den THEN "#27ae60"
    ELSE "#9b59b6"

\* C39, as stated: the width of the occupancy bar is
\* min(100, current_capacity / maximum_capacity * 100) percent, never more
\* than 100, and the colour is red from 85 percent, orange from 65, green
\* from 30 and purple below, the percentage being that quotient.
C39_WidthAndColourOfExactRatio ==
    infoPanel # Null =>
        LET current == infoPanel.zone.current_capacity
            maximum == infoPanel.zone.maximum_capacity
        IN  /\ infoPanel.width * maximum =
                  (IF current > maximum THEN 1000 * maximum ELSE 1000 * current)
            /\ infoPanel.width <= 1000
            /\ infoPanel.color = ColorOfRatio(100 * current, maximum)

\* C39, amended: for a zone with a positive maximum_capacity the percentage
\* shown is current_capacity / maximum_capacity * 100 rounded to one
\* decimal; the width of the bar is the smaller of 100 and the percentage
\* shown, so never more than 100 and 100 when current_capacity exceeds
\* maximum_capacity; the colour of text and bar is red when the percentage
\* shown is at least 85, orange from 65, green from 30 and purple below.
C39_WidthAndColourOfShownPercent ==
    infoPanel # Null =>
        LET current == infoPanel.zone.current_capacity
            maximum == infoPanel.zone.maximum_capacity
            shown == infoPanel.text
        IN  /\ 2 * (shown * maximum - 1000 * current) <= maximum
            /\ 2 * (1000 * current - shown * maximum) <= maximum
            /\ infoPanel.width = (IF shown > 1000 THEN 1000 ELSE shown)
            /\ infoPanel.width <= 1000
            /\ current > maximum => infoPanel.width = 1000
            /\ infoPanel.color = ColorOfRatio(shown, 10)
            /\ infoPanel.backgroundColor = infoPanel.color

\* The panel shows a zone holding 150 of 100 places: 150.0 percent in red
\* over a full bar.
C39_Witness ==
    /\ infoPanel # Null
    /\ infoPanel.zone = [current_capacity |-> 150, maximum_capacity |-> 100]
    /\ infoPanel.text = 1500
    /\ infoPanel.width = 1000
    /\ infoPanel.color = "#e74c3c"

=============================================================================
